---------------------------- MODULE Spec2Model ----------------------------
(***************************************************************************)
(* Digital_Director: the note-level interpreter (conductor package).       *)
(*                                                                         *)
(* The model follows conductor/note_manipulator.py (NoteLevelInterpreter), *)
(* conductor/voice_analyzer.py, conductor/rule_base.py, the three rule     *)
(* catalogues, conductor/orchestral_conductor.py and the hand-off in       *)
(* conductor/midi_processor.py.                                            *)
(*                                                                         *)
(* Conventions                                                             *)
(*  - ticks, pitches and velocities are integers as in the source;         *)
(*  - the four strengths and every bias / agogic value are held in         *)
(*    thousandths (1000 = 1.0);                                            *)
(*  - Python's int(x) truncates towards zero: Trunc;                       *)
(*  - indices into voice.notes are 0-based as in the source, so note i of  *)
(*    the source is notes[i+1] here; prev_note / next_note are held as     *)
(*    0-based indices, NoLink standing for None.                           *)
(***************************************************************************)
EXTENDS Integers, Sequences, FiniteSets, TLC

VARIABLES
    pc,          \* position of the run: load_midi / interpret / writer
    midi,        \* the input file: [ticks_per_beat, tracks (raw messages)]
    cfg,         \* constructor arguments of NoteLevelInterpreter
    enabled,     \* rule name -> rule.enabled
    env,         \* what the environment does to this run: the failures it
                 \* raises and the values its random source may return
    voices,      \* self.voices
    ticks_per_beat, \* self.ticks_per_beat
    conductor,   \* self.orchestral_conductor
    cursor,      \* <<voice index, note index>> of the two nested loops
    cache,       \* timing_direction_cache of the running _interpret_voice
    rules,       \* mutable state kept inside rule instances
    stats,       \* self.stats
    rule_stats,  \* self.rule_manager.stats
    log,         \* history: what ran, in order
    score,       \* the parsed score handed to dynamics.py
    voice_dynamics, \* part index -> anchor points (offset, value)
    output       \* mid.tracks as a writer leaves them: per track the
                 \* sorted (absolute time, written message) pairs

vars == <<pc, midi, cfg, enabled, env, voices, ticks_per_beat, conductor,
          cursor, cache, rules, stats, rule_stats, log, score,
          voice_dynamics, output>>

-----------------------------------------------------------------------------
(* Bounds of the explored inputs *)

MaxFree == 2        \* notes of a freely chosen voice
LongLen == 11       \* notes of a patterned voice
MaxVoices == 2      \* voices of a multi-voice score

MaxPhrases == 3     \* phrases of a phrased voice
MaxSteps == 4       \* moves of a stepping voice

-----------------------------------------------------------------------------
(* Arithmetic helpers *)

Trunc(n, d) == IF n >= 0 THEN n \div d ELSE -((-n) \div d)

Max2(a, b) == IF a >= b THEN a ELSE b

Min2(a, b) == IF a <= b THEN a ELSE b

Abs(a) == IF a >= 0 THEN a ELSE -a

RECURSIVE SumSeq(_)
SumSeq(s) == IF s = <<>> THEN 0 ELSE Head(s) + SumSeq(Tail(s))

NoLink == -1

-----------------------------------------------------------------------------
(* voice_analyzer.py: NoteProperties and MusicalVoice *)

NoteProperties(pitch, velocity, start_time, duration, track, channel) ==
    [ pitch |-> pitch, velocity |-> velocity,
      start_time |-> start_time, duration |-> duration,
      original_start_time |-> start_time, original_duration |-> duration,
      track |-> track, channel |-> channel,
      adjusted_start_time |-> start_time, adjusted_duration |-> duration,
      adjusted_velocity |-> velocity,
      is_melody |-> FALSE, is_bass |-> FALSE, is_inner_voice |-> FALSE,
      metric_position |-> 0,                    \* ticks into the measure
      phrase_position |-> [num |-> 0, den |-> 1],
      is_downbeat |-> FALSE,
      next_note |-> NoLink, prev_note |-> NoLink,
      interval_to_next |-> 0, interval_to_prev |-> 0 ]

MusicalVoice(track_index, channel) ==
    [ track_index |-> track_index, channel |-> channel, notes |-> <<>>,
      role |-> "unknown", avg_pitch |-> [sum |-> 0, n |-> 1],
      phrases |-> <<>> ]

\* list.sort(key=original_start_time): stable insertion of n into sorted s
RECURSIVE InsertByStart(_, _)
InsertByStart(s, n) ==
    IF s = <<>> THEN <<n>>
    ELSE IF s[Len(s)].original_start_time <= n.original_start_time
         THEN Append(s, n)
         ELSE Append(InsertByStart(SubSeq(s, 1, Len(s) - 1), n), s[Len(s)])

RECURSIVE SortByStart(_)
SortByStart(s) ==
    IF s = <<>> THEN <<>>
    ELSE InsertByStart(SortByStart(SubSeq(s, 1, Len(s) - 1)), s[Len(s)])

\* analyze(): link neighbours, then calculate_intervals() on every note
LinkNotes(ns) ==
    [ k \in 1..Len(ns) |->
        [ ns[k] EXCEPT
            !.next_note = IF k < Len(ns) THEN k ELSE NoLink,
            !.prev_note = IF k > 1 THEN k - 2 ELSE NoLink,
            !.interval_to_next =
                IF k < Len(ns) THEN ns[k+1].pitch - ns[k].pitch ELSE 0,
            !.interval_to_prev =
                IF k > 1 THEN ns[k].pitch - ns[k-1].pitch ELSE 0 ] ]

\* the role thresholds on avg_pitch = sum(pitches) / len(pitches)
MelodyThreshold == 70
BassThreshold == 50

\* variant of RoleOf that counts an average of exactly 70 as melody
RoleOfInclusive(avg) ==
    IF avg.sum >= MelodyThreshold * avg.n THEN "melody"
    ELSE IF avg.sum < BassThreshold * avg.n THEN "bass"
    ELSE "inner_voice"

RoleOf(avg) ==
    IF avg.sum > MelodyThreshold * avg.n THEN "melody"
    ELSE IF avg.sum < BassThreshold * avg.n THEN "bass"
    ELSE "inner_voice"

\* variant of DetectPhrasesFrom that takes two notes for a phrase
RECURSIVE DetectPhrasesFromPairs(_, _, _, _, _)
DetectPhrasesFromPairs(ns, tpb, i, current_phrase_start, acc) ==
    IF i >= Len(ns)
    THEN IF Len(ns) - current_phrase_start > 1
         THEN Append(acc, <<current_phrase_start, Len(ns) - 1, "final">>)
         ELSE acc
    ELSE LET prev == ns[i]
             cur  == ns[i+1]
             gap  == cur.original_start_time
                       - (prev.original_start_time + prev.original_duration)
             is_gap == gap > tpb
             is_long_note == prev.original_duration > tpb * 2
             is_large_interval == Abs(cur.pitch - prev.pitch) > 7
         IN  IF is_gap \/ is_long_note \/ is_large_interval
             THEN DetectPhrasesFromPairs(ns, tpb, i + 1, i,
                    IF i - current_phrase_start > 1
                    THEN Append(acc, <<current_phrase_start, i - 1, "standard">>)
                    ELSE acc)
             ELSE DetectPhrasesFromPairs(ns, tpb, i + 1, current_phrase_start, acc)

\* _detect_phrases: scan i = 1 .. len-1 (0-based), then the final phrase
RECURSIVE DetectPhrasesFrom(_, _, _, _, _)
DetectPhrasesFrom(ns, tpb, i, current_phrase_start, acc) ==
    IF i >= Len(ns)
    THEN IF Len(ns) - current_phrase_start > 2
         THEN Append(acc, <<current_phrase_start, Len(ns) - 1, "final">>)
         ELSE acc
    ELSE LET prev == ns[i]          \* sorted_notes[i-1]
             cur  == ns[i+1]        \* sorted_notes[i]
             gap  == cur.original_start_time
                       - (prev.original_start_time + prev.original_duration)
             is_gap == gap > tpb
             is_long_note == prev.original_duration > tpb * 2
             is_large_interval == Abs(cur.pitch - prev.pitch) > 7
         IN  IF is_gap \/ is_long_note \/ is_large_interval
             THEN DetectPhrasesFrom(ns, tpb, i + 1, i,
                    IF i - current_phrase_start > 2
                    THEN Append(acc, <<current_phrase_start, i - 1, "standard">>)
                    ELSE acc)
             ELSE DetectPhrasesFrom(ns, tpb, i + 1, current_phrase_start, acc)

DetectPhrases(ns, tpb) == DetectPhrasesFrom(ns, tpb, 1, 0, <<>>)

\* _calculate_metric_positions: 4/4 assumed; beat_in_measure < 0.1 or
\* |beat_in_measure - 2.0| < 0.1, with beat_in_measure = tick / tpb
IsDownbeat(tick, tpb) ==
    \/ 10 * tick < tpb
    \/ 10 * Abs(tick - 2 * tpb) < tpb

MetricPositions(ns, tpb) ==
    [ k \in 1..Len(ns) |->
        LET tick == ns[k].original_start_time % (4 * tpb)
        IN  [ ns[k] EXCEPT !.metric_position = tick,
                           !.is_downbeat = IsDownbeat(tick, tpb) ] ]

\* variant of PhrasePositions that puts the last note of a phrase at 1
PhrasePositionsClosed(ns, phrases) ==
    IF phrases = <<>> THEN ns
    ELSE [ k \in 1..Len(ns) |->
            LET covering == { p \in 1..Len(phrases) :
                                phrases[p][1] <= k - 1 /\ k - 1 <= phrases[p][2] }
                p == IF covering = {} THEN 0
                     ELSE CHOOSE q \in covering : \A r \in covering : r <= q
            IN  IF p = 0 THEN ns[k]
                ELSE [ ns[k] EXCEPT !.phrase_position =
                         [ num |-> (k - 1) - phrases[p][1],
                           den |-> Max2(1, phrases[p][2] - phrases[p][1]) ] ] ]

\* _assign_phrase_positions: the last phrase covering an index wins
PhraseOfIndex(phrases, i) ==
    LET covering == { p \in 1..Len(phrases) :
                        phrases[p][1] <= i /\ i <= phrases[p][2] }
    IN  IF covering = {} THEN 0
        ELSE CHOOSE p \in covering : \A q \in covering : q <= p

PhrasePositions(ns, phrases) ==
    IF phrases = <<>> THEN ns
    ELSE [ k \in 1..Len(ns) |->
            LET p == PhraseOfIndex(phrases, k - 1)
            IN  IF p = 0 THEN ns[k]
                ELSE [ ns[k] EXCEPT !.phrase_position =
                         [ num |-> (k - 1) - phrases[p][1],
                           den |-> Max2(1, phrases[p][2] - phrases[p][1] + 1) ] ] ]

\* MusicalVoice.analyze
Analyze(voice, tpb) ==
    IF voice.notes = <<>> THEN voice
    ELSE
    LET linked  == LinkNotes(SortByStart(voice.notes))
        avg     == [ sum |-> SumSeq([k \in 1..Len(linked) |-> linked[k].pitch]),
                     n |-> Len(linked) ]
        role    == RoleOf(avg)
        flagged == [ k \in 1..Len(linked) |->
                      [ linked[k] EXCEPT
                          !.is_melody = (role = "melody"),
                          !.is_bass = (role = "bass"),
                          !.is_inner_voice = (role \notin {"melody", "bass"}) ] ]
        phrases == DetectPhrases(flagged, tpb)
    IN  [ voice EXCEPT
            !.notes = PhrasePositions(MetricPositions(flagged, tpb), phrases),
            !.avg_pitch = avg,
            !.role = role,
            !.phrases = phrases ]

-----------------------------------------------------------------------------
(* rule_base.py: InterpretationContext *)

\* int(ticks_per_beat * 0.1 * rubato_strength)
MaxTimingChange(tpb, rubato) == Trunc(tpb * rubato, 10000)

InterpretationContext(tpb, c, bias) ==
    LET base == MaxTimingChange(tpb, c.rubato_strength)
    IN  [ ticks_per_beat |-> tpb,
          expressiveness |-> c.expressiveness,
          rubato_strength |-> c.rubato_strength,
          articulation_strength |-> c.articulation_strength,
          dynamics_strength |-> c.dynamics_strength,
          timing_direction_bias |-> bias,
          max_timing_change |-> base,
          max_acceleration |->
              IF bias > 0 THEN Trunc((-base) * (1000 - bias), 1000) ELSE -base,
          max_delay |->
              IF bias < 0 THEN Trunc(base * (1000 + bias), 1000) ELSE base ]

\* get_timing_adjustment(factor), factor = fnum / fden
GetTimingAdjustment(ctx, fnum, fden) ==
    IF fnum < 0 THEN Trunc(ctx.max_acceleration * (-fnum), fden)
    ELSE Trunc(ctx.max_delay * fnum, fden)

\* min(127, int(v * (1 + pct/100 * strength)))  and its max(1, ...) twin
VelUp(v, pct, strength) == Min2(127, Trunc(v * (100000 + pct * strength), 100000))

\* variant of the max(1, ...) twin that leaves the floor of 1 out
VelDownUnclamped(v, pct, strength) == Trunc(v * (100000 - pct * strength), 100000)

VelDown(v, pct, strength) == Max2(1, Trunc(v * (100000 - pct * strength), 100000))

\* int(d * (1 +/- pct/100 * strength))
Scale(d, pct, strength) == Trunc(d * (100000 + pct * strength), 100000)

\* what a rule hands back: the voice's notes, its return value, its own state
Outcome(ns, applied, st) == [ notes |-> ns, applied |-> applied, st |-> st ]

HasPrev(n) == n.prev_note # NoLink

HasNext(n) == n.next_note # NoLink

PrevOf(ns, n) == ns[n.prev_note + 1]

NextOf(ns, n) == ns[n.next_note + 1]

-----------------------------------------------------------------------------
(* melody_rules.py *)

\* PhraseStartRule.apply
PhraseStartRule(ns, i, ctx, st, draw) ==
    LET n == ns[i+1]
        pos == n.phrase_position
    IN  IF 10 * pos.num < pos.den                  \* phrase_position < 0.1
        THEN LET delay == Trunc(ctx.max_timing_change * 7, 10)
             IN  Outcome([ ns EXCEPT ![i+1] =
                     [ n EXCEPT
                         !.adjusted_start_time = n.adjusted_start_time + delay,
                         !.adjusted_duration = Max2(3, n.adjusted_duration - delay),
                         !.adjusted_velocity = VelUp(n.velocity, 7, 1000) ] ],
                     TRUE, st)
        ELSE IF 10 * pos.num < 2 * pos.den /\ HasPrev(n)
        THEN LET accel == Trunc(ctx.max_timing_change * (-3), 10)
             IN  Outcome([ ns EXCEPT ![i+1] =
                     [ n EXCEPT
                         !.adjusted_start_time = n.adjusted_start_time + accel,
                         !.adjusted_velocity = VelUp(n.adjusted_velocity, 3, 1000) ] ],
                     TRUE, st)
        ELSE Outcome(ns, FALSE, st)

\* PhraseEndRule.apply; length_increase_threshold is 480 ticks whatever the file
PhraseEndRule(ns, i, ctx, st, draw) ==
    LET n == ns[i+1]
        pos == n.phrase_position
    IN  IF 10 * pos.num > 9 * pos.den              \* phrase_position > 0.9
        THEN LET delay == Trunc(ctx.max_timing_change * 8, 10)
             IN  Outcome([ ns EXCEPT ![i+1] =
                     [ n EXCEPT
                         !.adjusted_start_time = n.adjusted_start_time + delay,
                         !.adjusted_duration =
                             IF n.original_duration > 480
                             THEN Scale(n.adjusted_duration, 10, ctx.articulation_strength)
                             ELSE n.adjusted_duration,
                         !.adjusted_velocity =
                             VelDown(n.velocity, 5, ctx.dynamics_strength) ] ],
                     TRUE, st)
        ELSE Outcome(ns, FALSE, st)

\* PreLeapRule.apply
PreLeapRule(ns, i, ctx, st, draw) ==
    LET n == ns[i+1]
        interval == n.interval_to_next
    IN  IF Abs(interval) > 4 /\ HasNext(n)
        THEN LET timing_change ==
                     IF interval > 0
                     THEN Trunc(ctx.max_timing_change * (-12), 100)
                     ELSE Trunc(ctx.max_timing_change * 15, 100)
                 nx == NextOf(ns, n)
                 own == [ ns EXCEPT ![i+1] =
                     [ n EXCEPT
                         !.adjusted_start_time = n.adjusted_start_time + timing_change,
                         !.adjusted_duration =
                             Max2(3, Scale(n.adjusted_duration, -12,
                                           ctx.articulation_strength)) ] ]
             IN  Outcome([ own EXCEPT ![n.next_note + 1] =
                     [ nx EXCEPT !.adjusted_velocity =
                         VelUp(nx.velocity, 12, ctx.dynamics_strength) ] ],
                     TRUE, st)
        ELSE Outcome(ns, FALSE, st)

\* LocalPeakRule.apply
LocalPeakRule(ns, i, ctx, st, draw) ==
    LET n == ns[i+1]
    IN  IF /\ HasPrev(n) /\ HasNext(n)
           /\ n.pitch > PrevOf(ns, n).pitch
           /\ n.pitch > NextOf(ns, n).pitch
        THEN Outcome([ ns EXCEPT ![i+1] =
                 [ n EXCEPT
                     !.adjusted_start_time =
                         n.adjusted_start_time + Trunc(ctx.max_timing_change * 9, 10),
                     !.adjusted_velocity =
                         VelUp(n.velocity, 15, ctx.dynamics_strength) ] ],
                 TRUE, st)
        ELSE Outcome(ns, FALSE, st)

\* DownbeatRule.apply
DownbeatRule(ns, i, ctx, st, draw) ==
    LET n == ns[i+1]
    IN  IF n.is_downbeat
        THEN Outcome([ ns EXCEPT ![i+1] =
                 [ n EXCEPT
                     !.adjusted_start_time =
                         n.adjusted_start_time + Trunc(ctx.max_timing_change * 5, 10),
                     !.adjusted_velocity =
                         VelUp(n.velocity, 10, ctx.dynamics_strength) ] ],
                 TRUE, st)
        ELSE Outcome(ns, FALSE, st)

\* variant of ShortNoteRule whose thresholds are exclusive
ShortNoteRuleExclusive(ns, i, ctx, st, draw) ==
    LET n == ns[i+1]
        d == n.original_duration
        tpb == ctx.ticks_per_beat
    IN  IF 4 * d < tpb
        THEN LET pct == IF 16 * d < tpb THEN 5
                        ELSE IF 8 * d < tpb THEN 8
                        ELSE 6
                 min_duration == Max2(2, d \div 2)
             IN  Outcome([ ns EXCEPT ![i+1] =
                     [ n EXCEPT
                         !.adjusted_duration =
                             Max2(min_duration,
                                  Scale(n.adjusted_duration, -pct,
                                        ctx.articulation_strength)),
                         !.adjusted_velocity =
                             VelUp(n.velocity, 6, ctx.dynamics_strength) ] ],
                     TRUE, st)
        ELSE Outcome(ns, FALSE, st)

\* ShortNoteRule.apply: relative_duration = original_duration / ticks_per_beat
ShortNoteRule(ns, i, ctx, st, draw) ==
    LET n == ns[i+1]
        d == n.original_duration
        tpb == ctx.ticks_per_beat
    IN  IF 4 * d < tpb                             \* relative_duration < 0.25
        THEN LET pct == IF 16 * d <= tpb THEN 5    \* very_short_reduction
                        ELSE IF 8 * d <= tpb THEN 8 \* short_reduction
                        ELSE 6                     \* short_reduction * 0.75
                 min_duration == Max2(2, d \div 2)
             IN  Outcome([ ns EXCEPT ![i+1] =
                     [ n EXCEPT
                         !.adjusted_duration =
                             Max2(min_duration,
                                  Scale(n.adjusted_duration, -pct,
                                        ctx.articulation_strength)),
                         !.adjusted_velocity =
                             VelUp(n.velocity, 6, ctx.dynamics_strength) ] ],
                     TRUE, st)
        ELSE Outcome(ns, FALSE, st)

\* variant of LongNoteRule that reports False after raising the velocity
LongNoteRuleUnreported(ns, i, ctx, st, draw) ==
    LET n == ns[i+1]
    IN  IF n.original_duration > ctx.ticks_per_beat
        THEN Outcome([ ns EXCEPT ![i+1] =
                 [ n EXCEPT !.adjusted_velocity =
                     VelUp(n.velocity, 5, ctx.dynamics_strength) ] ],
                 FALSE, st)
        ELSE Outcome(ns, FALSE, st)

\* LongNoteRule.apply: threshold 1.0 beat
LongNoteRule(ns, i, ctx, st, draw) ==
    LET n == ns[i+1]
    IN  IF n.original_duration > ctx.ticks_per_beat
        THEN Outcome([ ns EXCEPT ![i+1] =
                 [ n EXCEPT !.adjusted_velocity =
                     VelUp(n.velocity, 5, ctx.dynamics_strength) ] ],
                 TRUE, st)
        ELSE Outcome(ns, FALSE, st)

\* AccelerandoRule.apply
AccelerandoRule(ns, i, ctx, st, draw) ==
    LET n == ns[i+1]
    IN  IF ~(HasPrev(n) /\ HasNext(n)) THEN Outcome(ns, FALSE, st)
        ELSE LET pv == PrevOf(ns, n)
                 nx == NextOf(ns, n)
                 is_ascending == n.pitch > pv.pitch /\ nx.pitch > n.pitch
                 interval_size == (n.pitch - pv.pitch) + (nx.pitch - n.pitch)
             IN  IF is_ascending /\ interval_size >= 2
                 THEN Outcome([ ns EXCEPT ![i+1] =
                         [ n EXCEPT
                             !.adjusted_start_time = n.adjusted_start_time
                                 + Trunc(ctx.max_timing_change * (-7), 10),
                             !.adjusted_velocity =
                                 VelUp(n.adjusted_velocity, 5, ctx.dynamics_strength) ] ],
                         TRUE, st)
                 ELSE Outcome(ns, FALSE, st)

\* SequenceAccelerationRule: the number of equal trailing intervals, minus one
\* (the for-loop over i = 3 .. len(current_sequence))
RECURSIVE SequencePosition(_, _, _)
SequencePosition(seq, i, found) ==
    IF i > Len(seq) THEN found
    ELSE IF \A k \in (Len(seq) - i + 1)..Len(seq) : seq[k] = seq[Len(seq)]
         THEN SequencePosition(seq, i + 1, i - 1)
         ELSE found

\* SequenceAccelerationRule.apply; current_sequence lives in the rule object
SequenceAccelerationRule(ns, i, ctx, st, draw) ==
    LET n == ns[i+1]
    IN  IF ~HasPrev(n) THEN Outcome(ns, FALSE, st)
        ELSE LET appended == Append(st.current_sequence, n.interval_to_prev)
                 seq == IF Len(appended) > 5 THEN Tail(appended) ELSE appended
                 st2 == [ st EXCEPT !.current_sequence = seq ]
                 detected == Len(seq) >= 3 /\ seq[Len(seq)] = seq[Len(seq) - 1]
                 sequence_position == SequencePosition(seq, 3, 0)
                 \* acceleration_factor * (1 + position * 0.1), in thousandths
                 raw == -(600 + 60 * sequence_position)
                 accel_factor == Max2(raw, -900)     \* max_acceleration
             IN  IF detected
                 THEN Outcome([ ns EXCEPT ![i+1] =
                         [ n EXCEPT
                             !.adjusted_start_time = n.adjusted_start_time
                                 + Trunc(ctx.max_timing_change * accel_factor, 1000),
                             !.adjusted_velocity =
                                 VelUp(n.adjusted_velocity, 5 * sequence_position, 1000) ] ],
                         TRUE, st2)
                 ELSE Outcome(ns, FALSE, st2)

\* DirectionalRule.apply: strength_multiplier = min(1.5, |interval| / 7),
\* held as mm / 14 with mm = min(21, 2 * |interval|)
DirectionalRule(ns, i, ctx, st, draw) ==
    LET n == ns[i+1]
        interval == n.interval_to_prev
        mm == Min2(21, 2 * Abs(interval))
    IN  IF Abs(interval) < 2 THEN Outcome(ns, FALSE, st)
        ELSE LET timing_change ==
                     IF interval > 0
                     THEN GetTimingAdjustment(ctx, -5 * mm, 140)   \* -0.5 * m
                     ELSE GetTimingAdjustment(ctx, 4 * mm, 140)    \*  0.4 * m
                 \* 1 + (+/-0.04) * m * dynamics_strength, over 1400000
                 change == 4 * mm * ctx.dynamics_strength
                 factor == IF interval > 0 THEN 1400000 + change
                           ELSE 1400000 - change
             IN  Outcome([ ns EXCEPT ![i+1] =
                     [ n EXCEPT
                         !.adjusted_start_time = n.adjusted_start_time + timing_change,
                         !.adjusted_velocity =
                             Min2(127, Max2(1,
                                 Trunc(n.adjusted_velocity * factor, 1400000))) ] ],
                     TRUE, st)

-----------------------------------------------------------------------------
(* bass_rules.py *)

\* BassDownbeatRule.apply
BassDownbeatRule(ns, i, ctx, st, draw) ==
    LET n == ns[i+1]
    IN  IF n.is_downbeat
        THEN Outcome([ ns EXCEPT ![i+1] =
                 [ n EXCEPT
                     !.adjusted_start_time =
                         n.adjusted_start_time + Trunc(ctx.max_timing_change * 3, 10),
                     !.adjusted_velocity =
                         VelUp(n.velocity, 8, ctx.dynamics_strength) ] ],
                 TRUE, st)
        ELSE Outcome(ns, FALSE, st)

\* BassShortNoteRule.apply
BassShortNoteRule(ns, i, ctx, st, draw) ==
    LET n == ns[i+1]
        d == n.original_duration
    IN  IF 2 * d < ctx.ticks_per_beat
        THEN LET min_duration == Max2(4, Trunc(d * 12, 100))
                 pct == IF 4 * d < ctx.ticks_per_beat THEN 6 ELSE 8
             IN  Outcome([ ns EXCEPT ![i+1] =
                     [ n EXCEPT !.adjusted_duration =
                         Max2(min_duration,
                              Scale(n.adjusted_duration, -pct,
                                    ctx.articulation_strength)) ] ],
                     TRUE, st)
        ELSE Outcome(ns, FALSE, st)

\* dict update / del on current_repetitions
DictSet(f, key, val) ==
    [ k \in DOMAIN f \cup {key} |-> IF k = key THEN val ELSE f[k] ]

DictDel(f, key) == [ k \in DOMAIN f \ {key} |-> f[k] ]

\* variant of BassRepeatedNotesRule that keeps the count of a pitch when the
\* repetition breaks
BassRepeatedNotesRuleNoReset(ns, i, ctx, st, draw) ==
    LET n == ns[i+1]
        d == n.original_duration
        repetition_key == <<n.track, n.channel, n.pitch>>
        reps == st.current_repetitions
    IN  IF HasPrev(n) /\ n.pitch = PrevOf(ns, n).pitch
        THEN LET repetition_count ==
                     IF repetition_key \in DOMAIN reps
                     THEN reps[repetition_key] + 1 ELSE 1
                 st2 == [ st EXCEPT !.current_repetitions =
                            DictSet(reps, repetition_key, repetition_count) ]
                 min_duration == Max2(4, Trunc(d * 15, 100))
                 vel0 == Min2(127, Max2(1,
                            Trunc(n.velocity
                                  * (100000 + 5 * draw.jitter * ctx.dynamics_strength),
                                  100000)))
                 repetition_factor == Min2(5, repetition_count - 2)
                 time_change ==
                     Trunc(ctx.max_timing_change
                           * (-4) * repetition_factor * ctx.rubato_strength, 500000)
                 vel1 == IF repetition_count > 4
                         THEN VelUp(vel0, Min2(15, 3 * (repetition_count - 3)), 1000)
                         ELSE vel0
             IN  Outcome([ ns EXCEPT ![i+1] =
                     [ n EXCEPT
                         !.adjusted_velocity =
                             IF repetition_count >= 3 THEN vel1 ELSE vel0,
                         !.adjusted_start_time =
                             IF repetition_count >= 3
                             THEN n.adjusted_start_time + time_change
                             ELSE n.adjusted_start_time,
                         !.adjusted_duration =
                             IF 4 * d > ctx.ticks_per_beat
                             THEN Max2(min_duration,
                                      Trunc(n.adjusted_duration
                                            * (100000 + 3 * draw.jitter
                                                 * ctx.articulation_strength),
                                            100000))
                             ELSE n.adjusted_duration ] ],
                     TRUE, st2)
        ELSE Outcome(ns, FALSE, st)

\* BassRepeatedNotesRule.apply; draw.jitter in {-1, 0, 1} places both
\* random.uniform draws at the lower end, the middle or the upper end
BassRepeatedNotesRule(ns, i, ctx, st, draw) ==
    LET n == ns[i+1]
        d == n.original_duration
        repetition_key == <<n.track, n.channel, n.pitch>>
        reps == st.current_repetitions
    IN  IF HasPrev(n) /\ n.pitch = PrevOf(ns, n).pitch
        THEN LET repetition_count ==
                     IF repetition_key \in DOMAIN reps
                     THEN reps[repetition_key] + 1 ELSE 1
                 st2 == [ st EXCEPT !.current_repetitions =
                            DictSet(reps, repetition_key, repetition_count) ]
                 min_duration == Max2(4, Trunc(d * 15, 100))
                 vel0 == Min2(127, Max2(1,
                            Trunc(n.velocity
                                  * (100000 + 5 * draw.jitter * ctx.dynamics_strength),
                                  100000)))
                 \* min(1.0, (count - threshold + 1) * 0.2), in fifths
                 repetition_factor == Min2(5, repetition_count - 2)
                 \* -0.04 * factor * rubato, never below max_acceleration -0.2
                 time_change ==
                     Trunc(ctx.max_timing_change
                           * (-4) * repetition_factor * ctx.rubato_strength, 500000)
                 vel1 == IF repetition_count > 4
                         THEN VelUp(vel0, Min2(15, 3 * (repetition_count - 3)), 1000)
                         ELSE vel0
             IN  Outcome([ ns EXCEPT ![i+1] =
                     [ n EXCEPT
                         !.adjusted_velocity =
                             IF repetition_count >= 3 THEN vel1 ELSE vel0,
                         !.adjusted_start_time =
                             IF repetition_count >= 3
                             THEN n.adjusted_start_time + time_change
                             ELSE n.adjusted_start_time,
                         !.adjusted_duration =
                             IF 4 * d > ctx.ticks_per_beat
                             THEN Max2(min_duration,
                                      Trunc(n.adjusted_duration
                                            * (100000 + 3 * draw.jitter
                                                 * ctx.articulation_strength),
                                            100000))
                             ELSE n.adjusted_duration ] ],
                     TRUE, st2)
        ELSE Outcome(ns, FALSE,
                 [ st EXCEPT !.current_repetitions = DictDel(reps, repetition_key) ])

\* BassPhraseEndRule.apply
BassPhraseEndRule(ns, i, ctx, st, draw) ==
    LET n == ns[i+1]
        pos == n.phrase_position
    IN  IF 10 * pos.num > 9 * pos.den /\ n.original_duration > ctx.ticks_per_beat
        THEN Outcome([ ns EXCEPT ![i+1] =
                 [ n EXCEPT !.adjusted_duration =
                     Scale(n.adjusted_duration, 15, ctx.articulation_strength) ] ],
                 TRUE, st)
        ELSE Outcome(ns, FALSE, st)

-----------------------------------------------------------------------------
(* inner_voice_rules.py *)

\* InnerVoiceBaseVelocityRule.apply
InnerVoiceBaseVelocityRule(ns, i, ctx, st, draw) ==
    LET n == ns[i+1]
    IN  Outcome([ ns EXCEPT ![i+1] =
            [ n EXCEPT !.adjusted_velocity =
                VelDown(n.velocity, 5, ctx.dynamics_strength) ] ],
            TRUE, st)

\* variant of InnerContourRule that boosts valleys only
InnerContourRuleValleysOnly(ns, i, ctx, st, draw) ==
    LET n == ns[i+1]
    IN  IF ~(HasPrev(n) /\ HasNext(n)) THEN Outcome(ns, FALSE, st)
        ELSE LET pv == PrevOf(ns, n)
                 nx == NextOf(ns, n)
                 is_valley == n.pitch < pv.pitch /\ n.pitch < nx.pitch
             IN  IF is_valley
                 THEN Outcome([ ns EXCEPT ![i+1] =
                         [ n EXCEPT !.adjusted_velocity =
                             VelUp(n.adjusted_velocity, 8, ctx.dynamics_strength) ] ],
                         TRUE, st)
                 ELSE Outcome(ns, FALSE, st)

\* InnerContourRule.apply
InnerContourRule(ns, i, ctx, st, draw) ==
    LET n == ns[i+1]
    IN  IF ~(HasPrev(n) /\ HasNext(n)) THEN Outcome(ns, FALSE, st)
        ELSE LET pv == PrevOf(ns, n)
                 nx == NextOf(ns, n)
                 is_peak == n.pitch > pv.pitch /\ n.pitch > nx.pitch
                 is_valley == n.pitch < pv.pitch /\ n.pitch < nx.pitch
             IN  IF is_peak \/ is_valley
                 THEN Outcome([ ns EXCEPT ![i+1] =
                         [ n EXCEPT !.adjusted_velocity =
                             VelUp(n.adjusted_velocity, 8, ctx.dynamics_strength) ] ],
                         TRUE, st)
                 ELSE Outcome(ns, FALSE, st)

\* InnerConsonantRule.apply
InnerConsonantRule(ns, i, ctx, st, draw) ==
    LET n == ns[i+1]
    IN  IF HasPrev(n)
           /\ (Abs(n.pitch - PrevOf(ns, n).pitch) % 12) \in {3, 4, 7, 8, 9}
        THEN Outcome([ ns EXCEPT ![i+1] =
                 [ n EXCEPT !.adjusted_duration =
                     Scale(n.adjusted_duration, 5, ctx.articulation_strength) ] ],
                 TRUE, st)
        ELSE Outcome(ns, FALSE, st)

\* InnerFlowTimingRule.apply; draw.flow in {-1, 0, 1} places
\* int(random.uniform(-max_effect, max_effect)) at -max_effect, 0 or max_effect
InnerFlowTimingRule(ns, i, ctx, st, draw) ==
    LET n == ns[i+1]
        max_effect == Trunc(ctx.max_timing_change * 5, 10)
        timing_variation == draw.flow * max_effect
    IN  Outcome([ ns EXCEPT ![i+1] =
            [ n EXCEPT !.adjusted_start_time =
                n.adjusted_start_time + timing_variation ] ],
            Abs(timing_variation) > 0, st)

\* InnerShortNoteRule.apply
InnerShortNoteRule(ns, i, ctx, st, draw) ==
    LET n == ns[i+1]
        d == n.original_duration
    IN  IF 4 * d < ctx.ticks_per_beat
        THEN LET calculated_min == Max2(5, Trunc(d * 15, 100))
                 pct == IF 8 * d < ctx.ticks_per_beat THEN 2 ELSE 5
             IN  Outcome([ ns EXCEPT ![i+1] =
                     [ n EXCEPT !.adjusted_duration =
                         Max2(calculated_min,
                              Scale(n.adjusted_duration, -pct,
                                    ctx.articulation_strength)) ] ],
                     TRUE, st)
        ELSE Outcome(ns, FALSE, st)

-----------------------------------------------------------------------------
(* rule_base.py RuleManager / note_manipulator.py _load_default_rules *)

\* rule_sets, in registration order
RuleSets ==
    [ melody |-> << "phrase_start", "phrase_end", "pre_leap", "local_peak",
                    "downbeat", "short_note", "long_note", "accelerando",
                    "sequence_accel", "directional_timing" >>,
      bass   |-> << "bass_downbeat", "bass_short", "bass_repeated",
                    "bass_phrase_end" >>,
      inner  |-> << "inner_base_velocity", "inner_contour", "inner_consonant",
                    "inner_timing_flow", "inner_short_note" >> ]

RuleNames ==
    { RuleSets[t][k] : t \in {"melody"}, k \in 1..10 }
      \cup { RuleSets[t][k] : t \in {"bass"}, k \in 1..4 }
      \cup { RuleSets[t][k] : t \in {"inner"}, k \in 1..5 }

\* rule.apply(note, voice, context), dispatched on the rule object
ApplyRule(name, ns, i, ctx, st, draw) ==
    CASE name = "phrase_start" -> PhraseStartRule(ns, i, ctx, st, draw)
      [] name = "phrase_end" -> PhraseEndRule(ns, i, ctx, st, draw)
      [] name = "pre_leap" -> PreLeapRule(ns, i, ctx, st, draw)
      [] name = "local_peak" -> LocalPeakRule(ns, i, ctx, st, draw)
      [] name = "downbeat" -> DownbeatRule(ns, i, ctx, st, draw)
      [] name = "short_note" -> ShortNoteRule(ns, i, ctx, st, draw)
      [] name = "long_note" -> LongNoteRule(ns, i, ctx, st, draw)
      [] name = "accelerando" -> AccelerandoRule(ns, i, ctx, st, draw)
      [] name = "sequence_accel" ->
             SequenceAccelerationRule(ns, i, ctx, st, draw)
      [] name = "directional_timing" -> DirectionalRule(ns, i, ctx, st, draw)
      [] name = "bass_downbeat" -> BassDownbeatRule(ns, i, ctx, st, draw)
      [] name = "bass_short" -> BassShortNoteRule(ns, i, ctx, st, draw)
      [] name = "bass_repeated" -> BassRepeatedNotesRule(ns, i, ctx, st, draw)
      [] name = "bass_phrase_end" -> BassPhraseEndRule(ns, i, ctx, st, draw)
      [] name = "inner_base_velocity" -> InnerVoiceBaseVelocityRule(ns, i, ctx, st, draw)
      [] name = "inner_contour" -> InnerContourRule(ns, i, ctx, st, draw)
      [] name = "inner_consonant" -> InnerConsonantRule(ns, i, ctx, st, draw)
      [] name = "inner_timing_flow" -> InnerFlowTimingRule(ns, i, ctx, st, draw)
      [] name = "inner_short_note" -> InnerShortNoteRule(ns, i, ctx, st, draw)

-----------------------------------------------------------------------------
(* orchestral_conductor.py: structure analysis                              *)
(* Lists are sequences; the dicts agogic_map and gravity_centers are        *)
(* functions whose DOMAIN is the set of keys.                               *)

EmptyDict == [ k \in {} |-> 0 ]

OrchestralConductor(expressiveness, wave_strength, wave_complexity) ==
    [ expressiveness |-> expressiveness,
      wave_strength |-> wave_strength,
      wave_complexity |-> wave_complexity,
      agogic_map |-> EmptyDict,
      phrase_boundaries |-> <<>>,
      cadences |-> <<>>,
      gravity_centers |-> EmptyDict,
      stats |-> [ phrase_count |-> 0, cadence_count |-> 0, measure_count |-> 0 ] ]

\* _estimate_measure_number: 1920 ticks per measure whatever the file says
EstimateMeasureNumber(note) == note.original_start_time \div 1920

\* _get_measure_from_note_index; NoLink stands for None
GetMeasureFromNoteIndex(voice, note_index) ==
    IF voice.notes = <<>> \/ note_index >= Len(voice.notes) THEN NoLink
    ELSE EstimateMeasureNumber(voice.notes[note_index + 1])

RECURSIVE MaxOfSeq(_)
MaxOfSeq(s) == IF s = <<>> THEN 0 ELSE Max2(Head(s), MaxOfSeq(Tail(s)))

RECURSIVE Flatten(_)
Flatten(ss) == IF ss = <<>> THEN <<>> ELSE Head(ss) \o Flatten(Tail(ss))

\* max_measure_found of the collection phase
MaxMeasureFound(vs) ==
    MaxOfSeq(Flatten([ v \in 1..Len(vs) |->
        [ k \in 1..Len(vs[v].notes) |-> EstimateMeasureNumber(vs[v].notes[k]) ] ]))

\* all_phrase_boundaries: (start_measure, end_measure, voice_idx, phrase_type)
AllPhraseBoundaries(vs) ==
    Flatten([ v \in 1..Len(vs) |->
        LET ph == vs[v].phrases
            raw == [ p \in 1..Len(ph) |->
                      << GetMeasureFromNoteIndex(vs[v], ph[p][1]),
                         GetMeasureFromNoteIndex(vs[v], ph[p][2]),
                         v - 1, ph[p][3] >> ]
        IN  SelectSeq(raw, LAMBDA b : b[1] # NoLink /\ b[2] # NoLink) ])

\* all_phrase_boundaries.sort(key=lambda x: x[0]), a stable sort
RECURSIVE InsertByFirst(_, _)
InsertByFirst(s, b) ==
    IF s = <<>> THEN <<b>>
    ELSE IF s[Len(s)][1] <= b[1] THEN Append(s, b)
         ELSE Append(InsertByFirst(SubSeq(s, 1, Len(s) - 1), b), s[Len(s)])

RECURSIVE SortByFirst(_)
SortByFirst(s) ==
    IF s = <<>> THEN <<>>
    ELSE InsertByFirst(SortByFirst(SubSeq(s, 1, Len(s) - 1)), s[Len(s)])

\* grouping loop: a boundary joins the group whose last start is within 1
RECURSIVE GroupBoundaries(_, _, _)
GroupBoundaries(bs, current_group, grouped) ==
    IF bs = <<>>
    THEN IF current_group = <<>> THEN grouped ELSE Append(grouped, current_group)
    ELSE LET b == Head(bs)
         IN  IF current_group = <<>>
                \/ Abs(b[1] - current_group[Len(current_group)][1]) <= 1
             THEN GroupBoundaries(Tail(bs), Append(current_group, b), grouped)
             ELSE GroupBoundaries(Tail(bs), <<b>>, Append(grouped, current_group))

\* Python round(n / d) for n >= 0: ties go to the even neighbour
RoundHalfEven(n, d) ==
    LET q == n \div d
        r == n % d
    IN  IF 2 * r < d THEN q
        ELSE IF 2 * r > d THEN q + 1
        ELSE IF q % 2 = 0 THEN q ELSE q + 1

\* the loop over grouped_boundaries of analyze_structure
RECURSIVE AdoptGroups(_, _, _)
AdoptGroups(c, groups, voice_count) ==
    IF groups = <<>> THEN c
    ELSE LET group == Head(groups)
             n == Len(group)
             phrase_start ==
                 RoundHalfEven(SumSeq([ k \in 1..n |-> group[k][1] ]), n)
             phrase_end ==
                 RoundHalfEven(SumSeq([ k \in 1..n |-> group[k][2] ]), n)
             \* min(1.0, 0.7 + cadence_likelihood * 0.3)
             strength == Min2(1000, 700 + Trunc(300 * n, voice_count))
             is_cadence == 2 * n >= voice_count
         IN  IF n >= Max2(1, voice_count \div 3)
             THEN AdoptGroups(
                    [ c EXCEPT
                        !.phrase_boundaries = Append(@, <<phrase_start, phrase_end>>),
                        !.cadences = IF is_cadence THEN Append(@, phrase_end) ELSE @,
                        !.gravity_centers =
                            IF is_cadence THEN DictSet(@, phrase_end, strength) ELSE @ ],
                    Tail(groups), voice_count)
             ELSE AdoptGroups(c, Tail(groups), voice_count)

\* variant of EightBarPhrases with the middle three measures after the start
RECURSIVE EightBarPhrasesMidThree(_, _, _, _)
EightBarPhrasesMidThree(c, i, upto, last) ==
    IF i >= upto THEN c
    ELSE LET end == Min2(i + 7, last)
             mid == i + 3
             g1 == DictSet(c.gravity_centers, end, 600)
             g2 == IF mid < end THEN DictSet(g1, mid, 300) ELSE g1
         IN  EightBarPhrasesMidThree(
                [ c EXCEPT !.phrase_boundaries = Append(@, <<i, end>>),
                           !.cadences = Append(@, end),
                           !.gravity_centers = g2 ],
                i + 8, upto, last)

\* the for-loop of 8-measure phrases shared by both default structures:
\* i = from, from + 8, ... below upto; last is the largest admissible end
RECURSIVE EightBarPhrases(_, _, _, _)
EightBarPhrases(c, i, upto, last) ==
    IF i >= upto THEN c
    ELSE LET end == Min2(i + 7, last)
             mid == i + 4
             g1 == DictSet(c.gravity_centers, end, 600)
             g2 == IF mid < end THEN DictSet(g1, mid, 300) ELSE g1
         IN  EightBarPhrases(
                [ c EXCEPT !.phrase_boundaries = Append(@, <<i, end>>),
                           !.cadences = Append(@, end),
                           !.gravity_centers = g2 ],
                i + 8, upto, last)

WithCounts(c) ==
    [ c EXCEPT !.stats.phrase_count = Len(c.phrase_boundaries),
               !.stats.cadence_count = Len(c.cadences) ]

\* _create_default_structure(measure_count)
CreateDefaultStructure(c, measure_count) ==
    LET mc == IF measure_count <= 0 THEN 16 ELSE measure_count
        blank == [ c EXCEPT !.stats.measure_count = mc,
                            !.phrase_boundaries = <<>>,
                            !.cadences = <<>>,
                            !.gravity_centers = EmptyDict ]
    IN  WithCounts(EightBarPhrases(blank, 0, mc, mc - 1))

\* _create_default_structure_from_voices(voices, max_measure)
CreateDefaultStructureFromVoices(c, vs, max_measure_in) ==
    LET estimated ==
            IF max_measure_in <= 0
            THEN MaxOfSeq([ v \in 1..Len(vs) |->
                     IF vs[v].notes = <<>> THEN 0
                     ELSE EstimateMeasureNumber(vs[v].notes[Len(vs[v].notes)]) ])
            ELSE max_measure_in
        max_measure == Max2(16, estimated)
        blank == [ c EXCEPT !.stats.measure_count = max_measure + 1,
                            !.phrase_boundaries = <<>>,
                            !.cadences = <<>>,
                            !.gravity_centers = EmptyDict ]
    IN  WithCounts(EightBarPhrases(blank, 0, max_measure, max_measure))

\* analyze_structure(voices); failing: something inside its try raises
\* (taken after the collection phase, so max_measure_found is known)
AnalyzeStructure(c, vs, failing) ==
    IF vs = <<>> THEN CreateDefaultStructure(c, 16)
    ELSE LET max_measure_found == MaxMeasureFound(vs)
             all_phrase_boundaries == SortByFirst(AllPhraseBoundaries(vs))
         IN  IF failing
             THEN CreateDefaultStructure(c, Max2(16, max_measure_found + 1))
             ELSE IF all_phrase_boundaries # <<>>
             THEN LET max_measure ==
                          MaxOfSeq([ k \in 1..Len(all_phrase_boundaries) |->
                                       all_phrase_boundaries[k][2] ])
                      sized == [ c EXCEPT
                          !.stats.measure_count =
                              Max2(max_measure + 1, max_measure_found + 1),
                          !.phrase_boundaries = <<>> ]
                  IN  WithCounts(AdoptGroups(sized,
                          GroupBoundaries(all_phrase_boundaries, <<>>, <<>>),
                          Len(vs)))
             ELSE CreateDefaultStructureFromVoices(c, vs, max_measure_found)

-----------------------------------------------------------------------------
(* orchestral_conductor.py: waves and the agogic map                        *)
(* Angles are in thousandths of a turn (1000 = 2 pi), sines and map values  *)
(* in thousandths.                                                          *)

\* np.sin on a general angle, by Bhaskara's rational approximation
Sin1000(angle) ==
    LET a == angle % 1000
        h == IF a <= 500 THEN a ELSE a - 500
        p == h * (500 - h)
        v == (16000 * p) \div (1250000 - 4 * p)
    IN  IF a <= 500 THEN v ELSE -v

\* np.sin(2 * np.pi * i / 8): exact to a thousandth; at the multiples of pi
\* the float result is a tiny number whose sign the overlays can see
\* (positive at odd multiples, negative at even ones), kept here as +/-1
NpSinEighths(i) ==
    IF i = 0 THEN 0
    ELSE IF i % 8 = 0 THEN -1
    ELSE IF i % 8 = 4 THEN 1
    ELSE <<707, 1000, 707, 0, -707, -1000, -707>>[i % 8]

\* _generate_simple_wave(length, amplitude); sin_fails: np.sin raises
GenerateSimpleWave(length_in, amplitude_in, sin_fails) ==
    LET length == IF length_in <= 0 THEN 16 ELSE length_in
        amplitude == IF amplitude_in <= 0 THEN 500 ELSE amplitude_in
    IN  IF sin_fails
        THEN [ k \in 1..length |->
                 IF (k - 1) % 2 = 0 THEN amplitude \div 2 ELSE -(amplitude \div 2) ]
        ELSE [ k \in 1..length |-> Trunc(amplitude * NpSinEighths(k - 1), 1000) ]

\* _generate_wave_function(length, amplitude, 0.15, complexity); phases are
\* the three np.random.rand() * pi draws; wave_fails: the try block raises
\* (as it also does when np.sin raises)
GenerateWaveFunction(length_in, amplitude_in, complexity_in, phases, wave_fails, sin_fails) ==
    LET length == IF length_in <= 0 THEN 16 ELSE length_in
        amplitude == IF amplitude_in <= 0 THEN 500 ELSE amplitude_in
        complexity == IF complexity_in < 0 \/ complexity_in > 1000
                      THEN 500 ELSE complexity_in
        \* np.linspace(0, 2 pi * 0.15 * length, length)
        x == [ k \in 1..length |->
                 IF length = 1 THEN 0
                 ELSE (150 * length * (k - 1)) \div (length - 1) ]
        ak == Trunc(amplitude * complexity, 1000)
        combined_wave == [ k \in 1..length |->
            amplitude * Sin1000(x[k])
            + (IF complexity > 0
               THEN Trunc(3 * ak * Sin1000((31 * x[k]) \div 10 + phases[1]), 10)
                    + Trunc(2 * ak * Sin1000((17 * x[k]) \div 10 + phases[2]), 10)
                    + Trunc(ak * Sin1000((5 * x[k]) \div 10 + phases[3]), 10)
               ELSE 0) ]
        max_val == MaxOfSeq([ k \in 1..length |-> Abs(combined_wave[k]) ])
    IN  IF wave_fails \/ sin_fails
        THEN GenerateSimpleWave(length, amplitude, sin_fails)
        ELSE IF max_val > 0
        THEN [ k \in 1..length |-> Trunc(combined_wave[k] * amplitude, max_val) ]
        ELSE [ k \in 1..length |-> Trunc(combined_wave[k], 1000) ]

\* overlay A of create_agogic_map, one phrase after the other
RECURSIVE PhraseOverlay(_, _, _, _)
PhraseOverlay(w, boundaries, measure_count, expressiveness) ==
    IF boundaries = <<>> THEN w
    ELSE LET start == Head(boundaries)[1]
             end == Head(boundaries)[2]
             phrase_end_factor == Min2(1000, 600 + Trunc(4 * expressiveness, 10))
             w1 == IF 0 <= end /\ end < measure_count
                      /\ end > 0 /\ end < measure_count - 1
                   THEN [ w EXCEPT
                            ![end] = Min2(@ + Trunc(3 * phrase_end_factor, 10), 1000),
                            ![end + 1] = Min2(@ + Trunc(6 * phrase_end_factor, 10), 1000) ]
                   ELSE w
             w2 == IF 0 <= start /\ start < measure_count
                      /\ start + 1 < measure_count
                   THEN [ w1 EXCEPT ![start + 2] =
                            Max2(@ - Trunc(25 * expressiveness, 100), -1000) ]
                   ELSE w1
         IN  PhraseOverlay(w2, Tail(boundaries), measure_count, expressiveness)

\* variant of overlay B that adds the cadence ritardando without clamping
RECURSIVE CadenceOverlayUnclamped(_, _, _, _)
CadenceOverlayUnclamped(w, cadences, measure_count, expressiveness) ==
    IF cadences = <<>> THEN w
    ELSE LET cadence == Head(cadences)
             cadence_factor == Min2(1000, 800 + Trunc(2 * expressiveness, 10))
             w1 == IF 0 <= cadence /\ cadence < measure_count
                   THEN [ w EXCEPT ![cadence + 1] =
                            @ + Trunc(8 * cadence_factor, 10) ]
                   ELSE w
             w2 == IF 0 <= cadence /\ cadence < measure_count /\ cadence > 0
                   THEN [ w1 EXCEPT ![cadence] =
                            @ + Trunc(5 * cadence_factor, 10) ]
                   ELSE w1
         IN  CadenceOverlayUnclamped(w2, Tail(cadences), measure_count,
                                     expressiveness)

\* overlay B, one cadence after the other
RECURSIVE CadenceOverlay(_, _, _, _)
CadenceOverlay(w, cadences, measure_count, expressiveness) ==
    IF cadences = <<>> THEN w
    ELSE LET cadence == Head(cadences)
             cadence_factor == Min2(1000, 800 + Trunc(2 * expressiveness, 10))
             w1 == IF 0 <= cadence /\ cadence < measure_count
                   THEN [ w EXCEPT ![cadence + 1] =
                            Min2(@ + Trunc(8 * cadence_factor, 10), 1000) ]
                   ELSE w
             w2 == IF 0 <= cadence /\ cadence < measure_count /\ cadence > 0
                   THEN [ w1 EXCEPT ![cadence] =
                            Min2(@ + Trunc(5 * cadence_factor, 10), 1000) ]
                   ELSE w1
         IN  CadenceOverlay(w2, Tail(cadences), measure_count, expressiveness)

\* overlay C: every gravity center pushes its measure further from zero
GravityOverlay(w, gravity_centers, measure_count, expressiveness) ==
    [ k \in 1..Len(w) |->
        IF (k - 1) \in DOMAIN gravity_centers /\ k - 1 < measure_count
        THEN LET gravity_effect ==
                     Trunc(gravity_centers[k - 1] * expressiveness * 4, 10000)
             IN  IF w[k] > 0 THEN Min2(w[k] + gravity_effect, 1000)
                 ELSE IF w[k] < 0 THEN Max2(w[k] - gravity_effect, -1000)
                 ELSE w[k]
        ELSE w[k] ]

\* {i: wave[i] for i in range(measure_count)}
DictOfWave(w, measure_count) == [ m \in 0..(measure_count - 1) |-> w[m + 1] ]

\* what a conductor method leaves behind: the conductor, and whether an
\* exception left the method
Returned(c) == [ conductor |-> c, raised |-> FALSE ]

Raised(c) == [ conductor |-> c, raised |-> TRUE ]

\* _create_fallback_agogic_map; "fallback" in fs: it raises before the map
\* is assigned
CreateFallbackAgogicMap(c, fs) ==
    LET measure_count == IF c.stats.measure_count <= 0 THEN 16
                         ELSE c.stats.measure_count
        simple_wave == GenerateSimpleWave(measure_count,
                           Trunc(c.wave_strength * 7, 10), "sin" \in fs)
    IN  IF "fallback" \in fs THEN Raised(c)
        ELSE Returned([ c EXCEPT !.agogic_map =
                          DictOfWave(simple_wave, measure_count) ])

\* create_agogic_map; "wave": the wave generator fails, "overlay": a step
\* of the outer try block fails after the base wave is built
CreateAgogicMap(c, phases, fs) ==
    LET measure_count == IF c.stats.measure_count <= 0 THEN 16
                         ELSE c.stats.measure_count
        sized == [ c EXCEPT !.stats.measure_count = measure_count ]
        base_wave == GenerateWaveFunction(measure_count, c.wave_strength,
                         c.wave_complexity, phases, "wave" \in fs, "sin" \in fs)
        modified_wave ==
            GravityOverlay(
                CadenceOverlay(
                    PhraseOverlay(base_wave, c.phrase_boundaries,
                                  measure_count, c.expressiveness),
                    c.cadences, measure_count, c.expressiveness),
                c.gravity_centers, measure_count, c.expressiveness)
    IN  IF "overlay" \in fs THEN CreateFallbackAgogicMap(sized, fs)
        ELSE Returned([ sized EXCEPT !.agogic_map =
                          DictOfWave(modified_wave, measure_count) ])

RECURSIVE MaxOfSet(_)
MaxOfSet(S) ==
    IF S = {} THEN 0
    ELSE LET x == CHOOSE y \in S : TRUE
         IN  Max2(x, MaxOfSet(S \ {x}))

InSeq(x, s) == \E k \in 1..Len(s) : s[k] = x

\* get_timing_direction(measure_number, beat_position), beat_position being
\* tick / (4 * tpb); failing: the try block raises
GetTimingDirection(c, measure_number_in, tick, tpb, failing) ==
    IF failing \/ DOMAIN c.agogic_map = {} THEN 0
    ELSE LET max_measure == MaxOfSet(DOMAIN c.agogic_map)
             measure_number == Max2(0, Min2(measure_number_in, max_measure))
             base_direction == IF measure_number \in DOMAIN c.agogic_map
                               THEN c.agogic_map[measure_number] ELSE 0
             at_end == \/ InSeq(measure_number, c.cadences)
                       \/ \E k \in 1..Len(c.phrase_boundaries) :
                              c.phrase_boundaries[k][2] = measure_number
             \* (beat_position - 0.5) * 2 * 0.3
             enhancement == Trunc(150 * tick - 300 * tpb, tpb)
             \* (0.5 - |beat_position - 0.5|) * 2 * 0.2
             center_effect == 200 - Trunc(100 * Abs(tick - 2 * tpb), tpb)
         IN  IF at_end /\ tick > 2 * tpb
             THEN Min2(base_direction + enhancement, 1000)
             ELSE IF measure_number \in DOMAIN c.gravity_centers
                     /\ base_direction > 0
             THEN Min2(base_direction + center_effect, 1000)
             ELSE IF measure_number \in DOMAIN c.gravity_centers
                     /\ base_direction < 0
             THEN Max2(base_direction - center_effect, -1000)
             ELSE base_direction

-----------------------------------------------------------------------------
(* note_manipulator.py: the safety pass *)

\* variant of MinPercent without tiers: 60% for every note
MinPercentFlat(d, tpb) == 60

\* min_percent of the tier, in percent; only notes of at most a quarter of
\* a beat are looked at, so the 60 % branch of the source is never taken
MinPercent(d, tpb) ==
    IF 16 * d <= tpb THEN 90          \* relative_duration <= 0.0625
    ELSE IF 8 * d <= tpb THEN 80      \* relative_duration <= 0.125
    ELSE IF 4 * d <= tpb THEN 70      \* relative_duration <= 0.25
    ELSE 60

\* max(absolute_min, int(original_duration * min_percent))
MinDuration(d, tpb) ==
    LET absolute_min == Max2(2, Trunc(d, 2))
    IN  Max2(absolute_min, Trunc(d * MinPercent(d, tpb), 100))

\* variant of ValidateNote that stops one tick short of the minimum
ValidateNoteBelowFloor(n, tpb) ==
    LET min_duration == MinDuration(n.original_duration, tpb)
    IN  IF 4 * n.original_duration <= tpb /\ n.adjusted_duration < min_duration
        THEN [ note |-> [ n EXCEPT !.adjusted_duration = min_duration - 1 ],
               corrected |-> 1,
               critical |-> IF 2 * n.adjusted_duration < min_duration THEN 1 ELSE 0 ]
        ELSE [ note |-> n, corrected |-> 0, critical |-> 0 ]

\* the body of the note loop of _validate_and_fix_note_durations
ValidateNote(n, tpb) ==
    LET min_duration == MinDuration(n.original_duration, tpb)
    IN  IF 4 * n.original_duration <= tpb /\ n.adjusted_duration < min_duration
        THEN [ note |-> [ n EXCEPT !.adjusted_duration = min_duration ],
               corrected |-> 1,
               critical |-> IF 2 * n.adjusted_duration < min_duration THEN 1 ELSE 0 ]
        ELSE [ note |-> n, corrected |-> 0, critical |-> 0 ]

\* _validate_and_fix_note_durations over self.voices
ValidateAndFixNoteDurations(vs, tpb) ==
    LET checked == [ v \in 1..Len(vs) |->
                      [ k \in 1..Len(vs[v].notes) |->
                          ValidateNote(vs[v].notes[k], tpb) ] ]
    IN  [ voices |-> [ v \in 1..Len(vs) |->
                        [ vs[v] EXCEPT !.notes =
                            [ k \in 1..Len(vs[v].notes) |-> checked[v][k].note ] ] ],
          corrected_notes |->
              SumSeq(Flatten([ v \in 1..Len(vs) |->
                  [ k \in 1..Len(vs[v].notes) |-> checked[v][k].corrected ] ])),
          critical_notes |->
              SumSeq(Flatten([ v \in 1..Len(vs) |->
                  [ k \in 1..Len(vs[v].notes) |-> checked[v][k].critical ] ])) ]

-----------------------------------------------------------------------------
(* note_manipulator.py: load_midi *)

\* a mido message of a track; time is the delta time in ticks
Msg(type, note, velocity, channel, time) ==
    [ type |-> type, note |-> note, velocity |-> velocity,
      channel |-> channel, time |-> time ]

\* variant of NoteDuration that keeps a duration <= 0 as it is
NoteDurationRaw(absolute_time, start_time) == absolute_time - start_time

\* duration = absolute_time - start_time; a duration <= 0 becomes 1 tick
NoteDuration(absolute_time, start_time) ==
    IF absolute_time - start_time <= 0 THEN 1 ELSE absolute_time - start_time

\* the message loop over one track: notes in the order their note-off arrives
RECURSIVE ReadTrack(_, _, _, _, _)
ReadTrack(msgs, track_idx, absolute_time_in, notes_on, acc) ==
    IF msgs = <<>> THEN acc
    ELSE LET msg == Head(msgs)
             absolute_time == absolute_time_in + msg.time
             key == <<msg.note, msg.channel>>
         IN  IF msg.type = "note_on" /\ msg.velocity > 0
             THEN ReadTrack(Tail(msgs), track_idx, absolute_time,
                            DictSet(notes_on, key, <<absolute_time, msg.velocity>>),
                            acc)
             ELSE IF msg.type = "note_off"
                     \/ (msg.type = "note_on" /\ msg.velocity = 0)
             THEN IF key \in DOMAIN notes_on
                  THEN LET start_time == notes_on[key][1]
                           velocity == notes_on[key][2]
                           duration == NoteDuration(absolute_time, start_time)
                       IN  ReadTrack(Tail(msgs), track_idx, absolute_time,
                               DictDel(notes_on, key),
                               Append(acc, NoteProperties(msg.note, velocity,
                                   start_time, duration, track_idx, msg.channel)))
                  ELSE ReadTrack(Tail(msgs), track_idx, absolute_time,
                                 notes_on, acc)
             ELSE ReadTrack(Tail(msgs), track_idx, absolute_time, notes_on, acc)

\* notes_by_track_channel turned into voices, in order of first insertion
RECURSIVE VoicesOfNotes(_, _)
VoicesOfNotes(ns, acc) ==
    IF ns = <<>> THEN acc
    ELSE LET n == Head(ns)
             at == { v \in 1..Len(acc) :
                       acc[v].track_index = n.track /\ acc[v].channel = n.channel }
         IN  IF at = {}
             THEN VoicesOfNotes(Tail(ns),
                      Append(acc, [ MusicalVoice(n.track, n.channel)
                                      EXCEPT !.notes = <<n>> ]))
             ELSE LET v == CHOOSE w \in at : TRUE
                  IN  VoicesOfNotes(Tail(ns),
                          [ acc EXCEPT ![v].notes = Append(@, n) ])

CountRole(vs, role) == Cardinality({ v \in 1..Len(vs) : vs[v].role = role })

\* load_midi: self.voices as collected from the tracks, before any analysis
CollectedVoices(m) ==
    VoicesOfNotes(Flatten([ t \in 1..Len(m.tracks) |->
        ReadTrack(m.tracks[t], t - 1, 0, EmptyDict, <<>>) ]), <<>>)

\* load_midi: what it leaves in self.voices; failing_voices are the voices
\* whose analyze() raises (on entry) and stay as collected
LoadedVoices(m, failing_voices) ==
    LET collected == CollectedVoices(m)
    IN  [ v \in 1..Len(collected) |->
            IF (v - 1) \in failing_voices THEN collected[v]
            ELSE Analyze(collected[v], m.ticks_per_beat) ]

LoadedStats(vs) ==
    LET analyzed == SelectSeq(vs, LAMBDA v : v.role # "unknown")
    IN  [ total_notes |-> SumSeq([ v \in 1..Len(vs) |-> Len(vs[v].notes) ]),
          total_voices |-> Len(vs),
          melody_voices |-> CountRole(analyzed, "melody"),
          bass_voices |-> CountRole(analyzed, "bass"),
          inner_voices |-> CountRole(analyzed, "inner_voice"),
          adjusted_notes |-> 0,
          corrected_durations |-> 0,
          critical_corrections |-> 0 ]

-----------------------------------------------------------------------------
(* note_manipulator.py: _interpret_voice, one note at a time *)

\* _get_measure_number: 4/4 at the file's own resolution
GetMeasureNumber(note, tpb) == note.original_start_time \div (tpb * 4)

\* the rule set a voice gets: everything that is neither "bass" nor
\* "inner_voice" is treated as melody
VoiceType(role) ==
    IF role = "bass" THEN "bass"
    ELSE IF role = "inner_voice" THEN "inner"
    ELSE "melody"

Failing(tag) == tag \in env.failures

\* rule.apply(note, voice, context) of a rule whose parameters, taken as
\* they are from the rule configuration, make it raise part-way: pre_leap
\* with a min_duration that is not a number raises at
\* max(min_duration, ...), after it has moved the start of the note; on a
\* note without a leap it returns False as always
InterruptedApply(name, ns, i, ctx) ==
    LET n == ns[i+1]
        interval == n.interval_to_next
    IN  IF /\ name = "pre_leap"
           /\ Failing(<<"param", "pre_leap", "min_duration">>)
           /\ Abs(interval) > 4 /\ HasNext(n)
        THEN [ raised |-> TRUE,
               notes |-> [ ns EXCEPT ![i+1].adjusted_start_time = @ +
                            (IF interval > 0
                             THEN Trunc(ctx.max_timing_change * (-12), 100)
                             ELSE Trunc(ctx.max_timing_change * 15, 100)) ] ]
        ELSE [ raised |-> FALSE, notes |-> ns ]

\* variant of ApplyRules that applies a rule whether it is enabled or not
RECURSIVE ApplyRulesIgnoringEnabled(_, _, _, _, _, _, _, _, _)
ApplyRulesIgnoringEnabled(names, k, ns, i, ctx, st, draw, raising, acc) ==
    IF k > Len(names)
    THEN [ notes |-> ns, st |-> st, fired |-> acc.fired, ran |-> acc.ran ]
    ELSE IF k \in raising
    THEN ApplyRulesIgnoringEnabled(names, k + 1, ns, i, ctx, st, draw,
                                   raising, acc)
    ELSE IF InterruptedApply(names[k], ns, i, ctx).raised
    THEN ApplyRulesIgnoringEnabled(names, k + 1, InterruptedApply(names[k], ns, i, ctx).notes,
             i, ctx, st, draw, raising, acc)
    ELSE LET out == ApplyRule(names[k], ns, i, ctx, st, draw)
         IN  ApplyRulesIgnoringEnabled(names, k + 1, out.notes, i, ctx, out.st,
                 draw, raising,
                 [ fired |-> IF out.applied THEN acc.fired \cup {names[k]}
                             ELSE acc.fired,
                   ran |-> acc.ran \cup {names[k]} ])

\* variant of ApplyRules in which a raising rule ends the rule loop of its
\* note
RECURSIVE ApplyRulesAbortOnRaise(_, _, _, _, _, _, _, _, _)
ApplyRulesAbortOnRaise(names, k, ns, i, ctx, st, draw, raising, acc) ==
    IF k > Len(names) \/ (k \in raising /\ enabled[names[k]])
    THEN [ notes |-> ns, st |-> st, fired |-> acc.fired, ran |-> acc.ran ]
    ELSE IF ~enabled[names[k]]
    THEN ApplyRulesAbortOnRaise(names, k + 1, ns, i, ctx, st, draw, raising,
                                acc)
    ELSE IF InterruptedApply(names[k], ns, i, ctx).raised
    THEN ApplyRulesAbortOnRaise(names, k + 1, InterruptedApply(names[k], ns, i, ctx).notes,
             i, ctx, st, draw, raising, acc)
    ELSE LET out == ApplyRule(names[k], ns, i, ctx, st, draw)
         IN  ApplyRulesAbortOnRaise(names, k + 1, out.notes, i, ctx, out.st,
                 draw, raising,
                 [ fired |-> IF out.applied THEN acc.fired \cup {names[k]}
                             ELSE acc.fired,
                   ran |-> acc.ran \cup {names[k]} ])

\* the loop over rule_sets[voice_type] for one note; raising holds the
\* positions (1-based) of the rules whose apply() raises on entry
RECURSIVE ApplyRules(_, _, _, _, _, _, _, _, _)
ApplyRules(names, k, ns, i, ctx, st, draw, raising, acc) ==
    IF k > Len(names)
    THEN [ notes |-> ns, st |-> st, fired |-> acc.fired, ran |-> acc.ran ]
    ELSE IF ~enabled[names[k]] \/ k \in raising
    THEN ApplyRules(names, k + 1, ns, i, ctx, st, draw, raising, acc)
    ELSE IF InterruptedApply(names[k], ns, i, ctx).raised
    THEN ApplyRules(names, k + 1, InterruptedApply(names[k], ns, i, ctx).notes,
             i, ctx, st, draw, raising, acc)
    ELSE LET out == ApplyRule(names[k], ns, i, ctx, st, draw)
         IN  ApplyRules(names, k + 1, out.notes, i, ctx, out.st, draw, raising,
                 [ fired |-> IF out.applied THEN acc.fired \cup {names[k]}
                             ELSE acc.fired,
                   ran |-> acc.ran \cup {names[k]} ])

\* rule_manager.stats[voice_type][rule.name] += 1 for every rule that fired
CountFired(rs, voice_type, fired) ==
    [ key \in DOMAIN rs \cup { <<voice_type, name>> : name \in fired } |->
        (IF key \in DOMAIN rs THEN rs[key] ELSE 0)
        + (IF key[1] = voice_type /\ key[2] \in fired THEN 1 ELSE 0) ]

IsAdjusted(n) ==
    \/ n.adjusted_start_time # n.original_start_time
    \/ n.adjusted_duration # n.original_duration
    \/ n.adjusted_velocity # n.velocity

\* the cursor after note note_idx of voice voice_idx
NextCursor(vs, voice_idx, note_idx) ==
    IF note_idx + 1 < Len(vs[voice_idx + 1].notes)
    THEN <<voice_idx, note_idx + 1>>
    ELSE <<voice_idx + 1, 0>>

StageEntered(l, stage) == [ l EXCEPT !.stages = Append(@, stage) ]

\* the body of "for note_idx, note in enumerate(voice.notes)"; a failing
\* note is one whose InterpretationContext(...) raises, after the timing
\* direction of its measure went into the cache
InterpretNote ==
    /\ pc = "structure_analyzed"
    /\ cursor[1] < Len(voices)
    /\ ~Failing(<<"voice", cursor[1]>>)
    /\ LET voice_idx == cursor[1]
           note_idx == cursor[2]
           voice == voices[voice_idx + 1]
           note == voice.notes[note_idx + 1]
           next == NextCursor(voices, voice_idx, note_idx)
           cache_after(c) == IF next[1] = voice_idx THEN c ELSE EmptyDict
           measure == GetMeasureNumber(note, ticks_per_beat)
           timing_direction_bias ==
               IF measure \in DOMAIN cache THEN cache[measure]
               ELSE GetTimingDirection(conductor, measure,
                        note.metric_position, ticks_per_beat,
                        Failing(<<"direction", voice_idx, note_idx>>))
       IN  /\ cache' = cache_after(DictSet(cache, measure, timing_direction_bias))
           /\ cursor' = next
           /\ IF Failing(<<"note", voice_idx, note_idx>>)
              THEN UNCHANGED <<voices, rules, stats, rule_stats, log>>
              ELSE \E s \in env.draws :
                   LET context == InterpretationContext(ticks_per_beat, cfg,
                                                        timing_direction_bias)
                       voice_type == VoiceType(voice.role)
                       raising == { k \in 1..Len(RuleSets[voice_type]) :
                                      Failing(<<"rule", voice_idx, note_idx, k>>) }
                       out == ApplyRules(RuleSets[voice_type], 1, voice.notes,
                                  note_idx, context, rules,
                                  [ flow |-> s, jitter |-> s ], raising,
                                  [ fired |-> {}, ran |-> {} ])
                   IN  /\ voices' = [ voices EXCEPT ![voice_idx + 1].notes = out.notes ]
                       /\ rules' = out.st
                       /\ rule_stats' = CountFired(rule_stats, voice_type, out.fired)
                       /\ stats' = [ stats EXCEPT !.adjusted_notes =
                                       IF IsAdjusted(out.notes[note_idx + 1])
                                       THEN @ + 1 ELSE @ ]
                       /\ log' = [ log EXCEPT !.ran = @ \cup
                                     { <<voice_idx, note_idx, name>> : name \in out.ran } ]
    /\ UNCHANGED <<score, voice_dynamics, output>>
    /\ UNCHANGED <<pc, midi, cfg, enabled, env, ticks_per_beat, conductor>>

\* _interpret_voice raises before its note loop: interpret() logs the error
\* and continues with the next voice
SkipVoice ==
    /\ pc = "structure_analyzed"
    /\ cursor[1] < Len(voices)
    /\ Failing(<<"voice", cursor[1]>>)
    /\ cursor' = <<cursor[1] + 1, 0>>
    /\ cache' = EmptyDict
    /\ UNCHANGED <<score, voice_dynamics, output>>
    /\ UNCHANGED <<pc, midi, cfg, enabled, env, voices, ticks_per_beat,
                   conductor, rules, stats, rule_stats, log>>

-----------------------------------------------------------------------------
(* note_manipulator.py: load_midi and interpret, stage by stage *)

\* the original values of every note, as NoteProperties.__init__ captured
\* them
Captured(vs) ==
    [ v \in 1..Len(vs) |->
        [ k \in 1..Len(vs[v].notes) |->
            LET n == vs[v].notes[k]
            IN  << n.pitch, n.velocity, n.original_start_time,
                   n.original_duration >> ] ]

\* load_midi(midi_file)
LoadMidi ==
    /\ pc = "start"
    /\ LET failing_voices == { v \in 0..(Len(midi.tracks) - 1) :
                                 Failing(<<"analyze", v>>) }
           loaded == LoadedVoices(midi, failing_voices)
       IN  /\ voices' = loaded
           /\ stats' = LoadedStats(loaded)
           /\ log' = [ StageEntered(log, "loaded") EXCEPT
                         !.captured = Captured(CollectedVoices(midi)) ]
    /\ ticks_per_beat' = midi.ticks_per_beat
    /\ pc' = "loaded"
    /\ UNCHANGED <<score, voice_dynamics, output>>
    /\ UNCHANGED <<midi, cfg, enabled, env, conductor, cursor, cache, rules,
                   rule_stats>>

\* interpret(), up to the voice loop: analyze_structure, create_agogic_map
\* and the except branch that replaces both results by empty structures
BeginInterpret ==
    /\ pc = "loaded"
    /\ \E phases \in env.phases :
         LET analyzed == AnalyzeStructure(conductor, voices,
                                          Failing(<<"conductor", "analysis">>))
             faults == { f \in {"wave", "sin", "overlay", "fallback"} :
                           Failing(<<"conductor", f>>) }
             mapped == CreateAgogicMap(analyzed, phases, faults)
         IN  conductor' =
                 IF mapped.raised
                 THEN [ mapped.conductor EXCEPT !.agogic_map = EmptyDict,
                                                !.phrase_boundaries = <<>> ]
                 ELSE mapped.conductor
    /\ pc' = "structure_analyzed"
    /\ cursor' = <<0, 0>>
    /\ cache' = EmptyDict
    /\ log' = StageEntered(log, "structure_analyzed")
    /\ UNCHANGED <<score, voice_dynamics, output>>
    /\ UNCHANGED <<midi, cfg, enabled, env, voices, ticks_per_beat, rules,
                   stats, rule_stats>>

\* variant of EndRulePass that leaves the voice loop at any time
EndRulePassEarly ==
    /\ pc = "structure_analyzed"
    /\ pc' = "rules_applied"
    /\ log' = StageEntered(log, "rules_applied")
    /\ UNCHANGED <<score, voice_dynamics, output>>
    /\ UNCHANGED <<midi, cfg, enabled, env, voices, ticks_per_beat, conductor,
                   cursor, cache, rules, stats, rule_stats>>

\* the voice loop of interpret() is exhausted
EndRulePass ==
    /\ pc = "structure_analyzed"
    /\ cursor[1] >= Len(voices)
    /\ pc' = "rules_applied"
    /\ log' = StageEntered(log, "rules_applied")
    /\ UNCHANGED <<score, voice_dynamics, output>>
    /\ UNCHANGED <<midi, cfg, enabled, env, voices, ticks_per_beat, conductor,
                   cursor, cache, rules, stats, rule_stats>>

\* interpret(): the call of _validate_and_fix_note_durations
ValidatePass ==
    /\ pc = "rules_applied"
    /\ LET fixed == ValidateAndFixNoteDurations(voices, ticks_per_beat)
       IN  /\ voices' = fixed.voices
           /\ stats' = IF fixed.corrected_notes > 0
                       THEN [ stats EXCEPT
                                !.corrected_durations = fixed.corrected_notes,
                                !.critical_corrections = fixed.critical_notes ]
                       ELSE stats
    /\ pc' = "validated"
    /\ log' = [ StageEntered(log, "validated") EXCEPT !.validations = @ + 1 ]
    /\ UNCHANGED <<score, voice_dynamics, output>>
    /\ UNCHANGED <<midi, cfg, enabled, env, ticks_per_beat, conductor, cursor,
                   cache, rules, rule_stats>>

\* interpret(): statistics, result dictionary, return
Finalize ==
    /\ pc = "validated"
    /\ pc' = "finalized"
    /\ log' = StageEntered(log, "finalized")
    /\ UNCHANGED <<score, voice_dynamics, output>>
    /\ UNCHANGED <<midi, cfg, enabled, env, voices, ticks_per_beat, conductor,
                   cursor, cache, rules, stats, rule_stats>>

-----------------------------------------------------------------------------
(* the two writers the results can be handed to *)

\* adjusted_notes[key]: the dictionary is filled voice by voice, note by
\* note, so of the notes that share a key the last one stays
AdjustedNote(vs, key) ==
    LET all == Flatten([ v \in 1..Len(vs) |-> vs[v].notes ])
        at == { k \in 1..Len(all) :
                  << all[k].track, all[k].channel, all[k].pitch,
                     all[k].original_start_time >> = key }
    IN  IF at = {} THEN <<>> ELSE << all[MaxOfSet(at)] >>

\* the message loop of a writer over one track: every message with time 0,
\* paired with the absolute time it is to sound at
RECURSIVE CollectEvents(_, _, _, _, _, _)
CollectEvents(msgs, track_idx, vs, absolute_time_in, active_notes, abs_events) ==
    IF msgs = <<>> THEN abs_events
    ELSE LET msg == Head(msgs)
             absolute_time == absolute_time_in + msg.time
             key == <<msg.note, msg.channel>>
             found == AdjustedNote(vs, << track_idx, msg.channel, msg.note,
                                          absolute_time >>)
             kept == << absolute_time, [ msg EXCEPT !.time = 0 ] >>
         IN  IF msg.type = "note_on" /\ msg.velocity > 0
             THEN IF found # <<>>
                  THEN LET adj_note == found[1]
                       IN  CollectEvents(Tail(msgs), track_idx, vs, absolute_time,
                               DictSet(active_notes, key,
                                       adj_note.adjusted_start_time
                                       + adj_note.adjusted_duration),
                               Append(abs_events,
                                   << adj_note.adjusted_start_time,
                                      [ msg EXCEPT !.time = 0,
                                          !.velocity = adj_note.adjusted_velocity ] >>))
                  ELSE CollectEvents(Tail(msgs), track_idx, vs, absolute_time,
                                     active_notes, Append(abs_events, kept))
             ELSE IF (msg.type = "note_off"
                      \/ (msg.type = "note_on" /\ msg.velocity = 0))
                     /\ key \in DOMAIN active_notes
             THEN CollectEvents(Tail(msgs), track_idx, vs, absolute_time,
                      DictDel(active_notes, key),
                      Append(abs_events,
                             << active_notes[key], [ msg EXCEPT !.time = 0 ] >>))
             ELSE CollectEvents(Tail(msgs), track_idx, vs, absolute_time,
                                active_notes, Append(abs_events, kept))

\* delta_time = max(0, abs_time - last_time); last_time = abs_time
RECURSIVE DeltaTimes(_, _)
DeltaTimes(abs_events, last_time) ==
    IF abs_events = <<>> THEN <<>>
    ELSE LET abs_time == Head(abs_events)[1]
             msg == Head(abs_events)[2]
         IN  << << abs_time, [ msg EXCEPT !.time = Max2(0, abs_time - last_time) ] >> >>
             \o DeltaTimes(Tail(abs_events), abs_time)

\* one track as a writer rebuilds it: collect, sort by absolute time (the
\* sort is stable), convert back to delta times
WriteTrack(track_idx, track, vs) ==
    DeltaTimes(SortByFirst(CollectEvents(track, track_idx, vs, 0, EmptyDict, <<>>)), 0)

\* NoteLevelInterpreter.save_midi reads the notes, leaves them alone and
\* rebuilds every track of the file
SaveMidi ==
    /\ pc = "finalized"
    /\ pc' = "saved"
    /\ output' = [ t \in 1..Len(midi.tracks) |->
                     WriteTrack(t - 1, midi.tracks[t], voices) ]
    /\ UNCHANGED <<score, voice_dynamics>>
    /\ UNCHANGED <<midi, cfg, enabled, env, voices, ticks_per_beat, conductor,
                   cursor, cache, rules, stats, rule_stats, log>>

\* midi_processor.py: the rescaling of every note when the file's
\* resolution differs from xml_division by more than a tenth
ScaleNote(n, midi_ticks, xml_division) ==
    [ n EXCEPT
        !.adjusted_start_time = Trunc(n.adjusted_start_time * midi_ticks, xml_division),
        !.adjusted_duration =
            Max2(1, Trunc(n.adjusted_duration * midi_ticks, xml_division)),
        !.original_start_time = Trunc(n.original_start_time * midi_ticks, xml_division),
        !.original_duration =
            Max2(1, Trunc(n.original_duration * midi_ticks, xml_division)) ]

\* midi_processor.py: adjusted_duration <= 0 is replaced before writing
FixBeforeWrite(n) ==
    IF n.adjusted_duration <= 0
    THEN [ n EXCEPT !.adjusted_duration = Max2(1, n.original_duration \div 2) ]
    ELSE n

\* process_midi_with_interpretation(input_midi, interpretation_results)
ProcessMidiWithInterpretation ==
    /\ pc = "finalized"
    /\ LET xml_division == cfg.xml_division
           midi_ticks == midi.ticks_per_beat
           rescale == /\ xml_division # midi_ticks
                      /\ xml_division > 0
                      /\ 10 * Abs(midi_ticks - xml_division) > xml_division
       IN  voices' = [ v \in 1..Len(voices) |->
                        [ voices[v] EXCEPT !.notes =
                            [ k \in 1..Len(voices[v].notes) |->
                                FixBeforeWrite(
                                    IF rescale
                                    THEN ScaleNote(voices[v].notes[k],
                                                   midi_ticks, xml_division)
                                    ELSE voices[v].notes[k]) ] ] ]
    /\ pc' = "processed"
    /\ output' = [ t \in 1..Len(midi.tracks) |->
                     WriteTrack(t - 1, midi.tracks[t], voices') ]
    /\ UNCHANGED <<score, voice_dynamics>>
    /\ UNCHANGED <<midi, cfg, enabled, env, ticks_per_beat, conductor, cursor,
                   cache, rules, stats, rule_stats, log>>

-----------------------------------------------------------------------------
(* The explored runs: input files, constructor arguments, environment *)

\* NoteLevelInterpreter.__init__ defaults, and every strength at its maximum
DefaultCfg ==
    [ expressiveness |-> 500, rubato_strength |-> 600,
      articulation_strength |-> 700, dynamics_strength |-> 700,
      xml_division |-> 480 ]

FullCfg ==
    [ expressiveness |-> 1000, rubato_strength |-> 1000,
      articulation_strength |-> 1000, dynamics_strength |-> 1000,
      xml_division |-> 480 ]

AllEnabled == [ r \in RuleNames |-> TRUE ]

NoneEnabled == [ r \in RuleNames |-> FALSE ]

Settings ==
    { [ cfg |-> DefaultCfg, enabled |-> AllEnabled ],
      [ cfg |-> FullCfg, enabled |-> AllEnabled ],
      [ cfg |-> DefaultCfg, enabled |-> NoneEnabled ] }

Resolutions == {96, 480}

NoteSpec(pitch, velocity, gap, dur) ==
    [ pitch |-> pitch, velocity |-> velocity, gap |-> gap, dur |-> dur ]

\* a monophonic track: note k sounds gap ticks after note k-1 ended; the
\* note-off is a note_off message or a note_on of velocity 0
TrackOf(specs, channel) ==
    Flatten([ k \in 1..Len(specs) |->
        << Msg("note_on", specs[k].pitch, specs[k].velocity, channel, specs[k].gap),
           IF k % 2 = 1
           THEN Msg("note_off", specs[k].pitch, 0, channel, specs[k].dur)
           ELSE Msg("note_on", specs[k].pitch, 0, channel, specs[k].dur) >> ])

MidiFile(tpb, tracks) == [ ticks_per_beat |-> tpb, tracks |-> tracks ]

NoFailure == {}

Phases0 == <<0, 0, 0>>

Phases1 == <<250, 125, 400>>

Environment(failures, draws, phases) ==
    [ failures |-> failures, draws |-> draws, phases |-> phases ]

Run(m, setting, e) ==
    [ midi |-> m, cfg |-> setting.cfg, enabled |-> setting.enabled, env |-> e ]

\* family 1: one track of up to MaxFree notes, repeating one pitch or
\* leaping upwards by fifths, each of a freely chosen length
FreePitches == {45, 50, 70, 75}

FreeSteps == {0, 7}

FreeDurations(tpb) ==
    {0, tpb \div 16, tpb \div 8, tpb \div 4, tpb \div 4 + 1, (3 * tpb) \div 2}

SeqsUpTo(S, n) == UNION { [1..k -> S] : k \in 0..n }

FreeNotes(tpb) ==
    { [ k \in 1..Len(durs) |-> NoteSpec(p + step * (k - 1), 64, 0, durs[k]) ] :
        p \in FreePitches, step \in FreeSteps,
        durs \in SeqsUpTo(FreeDurations(tpb), MaxFree) }

FreeRunsAt(tpb) ==
    { Run(MidiFile(tpb, IF specs = <<>> THEN <<>> ELSE <<TrackOf(specs, 0)>>),
          setting, Environment(NoFailure, {-1, 0, 1}, {Phases0})) :
        specs \in FreeNotes(tpb), setting \in Settings }

FreeRuns == UNION { FreeRunsAt(tpb) : tpb \in Resolutions }

\* family 2: one track of LongLen notes in a pitch pattern, back to back
Shape(shape, k) ==
    CASE shape = "repeat" -> 0
      [] shape = "scale" -> 2 * (k - 1)
      [] shape = "zigzag" -> (k - 1) \div 2 + (IF k % 2 = 0 THEN 6 ELSE 0)

PatternTrack(base, shape, velocity, dur) ==
    TrackOf([ k \in 1..LongLen |->
                NoteSpec(base + Shape(shape, k), velocity, 0, dur) ], 0)

PatternRunsAt(tpb) ==
    { Run(MidiFile(tpb, << PatternTrack(base, shape, velocity, dur) >>),
          setting, Environment(NoFailure, {s}, {Phases0})) :
        base \in {36, 60, 76}, shape \in {"repeat", "scale", "zigzag"},
        velocity \in {1, 64, 127}, dur \in {tpb \div 8, 2 * tpb},
        setting \in Settings, s \in {-1, 1} }

PatternRuns == UNION { PatternRunsAt(tpb) : tpb \in Resolutions }

\* family 3: up to MaxVoices three-note voices, one per track, run with and
\* without failures
Template(name, tpb) ==
    CASE name = "melody" ->
           << NoteSpec(74, 64, 0, tpb \div 8), NoteSpec(81, 64, 0, tpb \div 4),
              NoteSpec(76, 64, 0, tpb) >>
      [] name = "bass" ->
           << NoteSpec(40, 64, 0, tpb), NoteSpec(40, 64, 0, tpb),
              NoteSpec(40, 64, 0, tpb \div 8) >>
      [] name = "inner" ->
           << NoteSpec(60, 64, 0, tpb \div 8), NoteSpec(64, 64, 0, tpb \div 16),
              NoteSpec(62, 64, 0, 0) >>

FailureSets ==
    { NoFailure,
      { <<"rule", 0, 0, 1>> }, { <<"rule", 0, 1, 2>> },
      { <<"param", "pre_leap", "min_duration">> },
      { <<"note", 0, 1>> }, { <<"voice", 0>> }, { <<"analyze", 0>> },
      { <<"direction", 0, 0>> },
      { <<"conductor", "analysis">> }, { <<"conductor", "wave">> },
      { <<"conductor", "overlay">> },
      { <<"conductor", "wave">>, <<"conductor", "sin">> },
      { <<"conductor", "overlay">>, <<"conductor", "sin">> },
      { <<"conductor", "overlay">>, <<"conductor", "fallback">> } }

MultiRunsAt(tpb) ==
    { Run(MidiFile(tpb, [ t \in 1..Len(names) |->
                            TrackOf(Template(names[t], tpb), 0) ]),
          setting, Environment(failures, {0}, {Phases0, Phases1})) :
        names \in SeqsUpTo({"melody", "bass", "inner"}, MaxVoices) \ {<<>>},
        setting \in { st \in Settings : st.enabled = AllEnabled },
        failures \in FailureSets }

MultiRuns == UNION { MultiRunsAt(tpb) : tpb \in Resolutions }

\* family 4: an inner voice of four quarter notes, pitches 60 62 64 62, at
\* full strengths with every rule enabled
ScenarioVelocities == {64, 100, 127}

StepwiseTrack(velocity, tpb) ==
    TrackOf([ k \in 1..4 |->
                NoteSpec(<<60, 62, 64, 62>>[k], velocity, 0, tpb) ], 0)

StepwiseRuns ==
    { Run(MidiFile(tpb, << StepwiseTrack(velocity, tpb) >>),
          [ cfg |-> FullCfg, enabled |-> AllEnabled ],
          Environment(NoFailure, {-1, 0, 1}, {Phases0})) :
        velocity \in ScenarioVelocities, tpb \in Resolutions }

\* family 5: up to MaxVoices melody voices, each rising by whole tones
RisingTrack(tpb) ==
    TrackOf([ k \in 1..3 |-> NoteSpec(70 + 2 * k, 64, 0, tpb) ], 0)

RisingRuns ==
    { Run(MidiFile(tpb, [ t \in 1..n |-> RisingTrack(tpb) ]),
          [ cfg |-> FullCfg, enabled |-> AllEnabled ],
          Environment(NoFailure, {0}, {Phases0})) :
        n \in 1..MaxVoices, tpb \in Resolutions }

\* family 6: one track of up to MaxPhrases groups of two or three notes;
\* a group is set off from the one before by a rest of two beats ("rest")
\* or of one beat ("beat"), by a last note of three beats ("long") or of two
\* ("half"), or by a change of register of 8 semitones ("leap") or 7
\* ("fifth")
SegmentedTrack(cut, groups, size, tpb) ==
    TrackOf([ k \in 1..(groups * size) |->
        LET first_of_group == k > 1 /\ (k - 1) % size = 0
            last_of_group == k % size = 0
            upper == ((k - 1) \div size) % 2 = 1
        IN  NoteSpec(
              60 + (IF ~upper THEN 0 ELSE IF cut = "leap" THEN 8
                    ELSE IF cut = "fifth" THEN 7 ELSE 0),
              64,
              IF ~first_of_group THEN 0 ELSE IF cut = "rest" THEN 2 * tpb
              ELSE IF cut = "beat" THEN tpb ELSE 0,
              IF ~last_of_group THEN tpb ELSE IF cut = "long" THEN 3 * tpb
              ELSE IF cut = "half" THEN 2 * tpb ELSE tpb) ], 0)

SegmentedRuns ==
    { Run(MidiFile(tpb, << SegmentedTrack(cut, groups, size, tpb) >>),
          [ cfg |-> DefaultCfg, enabled |-> AllEnabled ],
          Environment(NoFailure, {0}, {Phases0})) :
        cut \in {"rest", "beat", "long", "half", "leap", "fifth"},
        groups \in 1..MaxPhrases, size \in {2, 3}, tpb \in Resolutions }

\* family 7: one track of quarter notes that moves from note to note by a
\* whole tone up, a whole tone down or not at all, for up to MaxSteps
\* moves, in the bass register and in the melody register; the first note
\* starts on the barline, a twentieth or a tenth of a beat after it, or a
\* tenth or a twentieth of a beat before the next one; the track closes
\* with its end_of_track message
StepTrack(base, steps, lead, tpb) ==
    TrackOf([ k \in 1..(Len(steps) + 1) |->
                NoteSpec(base + SumSeq(SubSeq(steps, 1, k - 1)), 64,
                         IF k = 1 THEN lead ELSE 0, tpb) ], 0)
    \o << Msg("end_of_track", 0, 0, 0, 0) >>

StepRuns ==
    { Run(MidiFile(480, << StepTrack(base, steps, lead, 480) >>),
          [ cfg |-> FullCfg, enabled |-> AllEnabled ],
          Environment(NoFailure, {0}, {Phases0})) :
        base \in {40, 80}, steps \in SeqsUpTo({-2, 0, 2}, MaxSteps),
        lead \in {0, 24, 48, 1872, 1896} }

Runs ==
    FreeRuns \cup PatternRuns \cup MultiRuns \cup StepwiseRuns \cup RisingRuns
    \cup SegmentedRuns \cup StepRuns

-----------------------------------------------------------------------------
(* dynamics.py: the anchor points of a score's expression curves.  Offsets  *)
(* and lengths are in quarters of a quarter note (4 = one beat); notes lie  *)
(* on the half-beat grid, so the middle of two offsets is a whole number.   *)
(* A point is <<offset, value>>.                                            *)

MaxParts == 2       \* parts of a score

MaxPartNotes == 6   \* notes of a part

\* a music21 note as the function reads it: offset in its part, length, pitch
ScoreNote(offset, quarterLength, pitch) ==
    [ offset |-> offset, quarterLength |-> quarterLength, midi |-> pitch ]

NoScore == [ time_signature |-> "4/4", parts |-> <<>> ]

\* score.highestTime
HighestTime(sc) ==
    MaxOfSeq(Flatten([ p \in 1..Len(sc.parts) |->
        [ k \in 1..Len(sc.parts[p].notes) |->
            sc.parts[p].notes[k].offset + sc.parts[p].notes[k].quarterLength ] ]))

\* beat_weights.get(note.beat, 0.8) in percent; the beat is counted from 1
\* within the note's measure
BeatWeight(sc, note) ==
    LET three == sc.time_signature = "3/4"
        in_measure == note.offset % (IF three THEN 12 ELSE 16)
        beat == in_measure \div 4 + 1
    IN  IF in_measure % 4 # 0 THEN 80
        ELSE IF three
        THEN (CASE beat = 1 -> 120 [] beat = 2 -> 70 [] beat = 3 -> 60)
        ELSE (CASE beat = 1 -> 120 [] beat = 2 -> 60 [] beat = 3 -> 90
                [] beat = 4 -> 70)

\* the phrase loop: a phrase ends before a note that follows a note of 2.5
\* beats or more, or a rest of 1.5 beats or more (the tests on the interval
\* and the downbeat sit behind elif i > 0 and are never reached)
RECURSIVE BaroquePhrases(_, _, _)
BaroquePhrases(notes, current_phrase_notes, phrases) ==
    IF notes = <<>>
    THEN IF current_phrase_notes = <<>> THEN phrases
         ELSE Append(phrases, current_phrase_notes)
    ELSE LET note == Head(notes)
             prev == current_phrase_notes[Len(current_phrase_notes)]
         IN  IF current_phrase_notes = <<>>
             THEN BaroquePhrases(Tail(notes), <<note>>, phrases)
             ELSE IF \/ prev.quarterLength >= 10
                     \/ note.offset - (prev.offset + prev.quarterLength) >= 6
             THEN BaroquePhrases(Tail(notes), <<note>>,
                                 Append(phrases, current_phrase_notes))
             ELSE BaroquePhrases(Tail(notes),
                                 Append(current_phrase_notes, note), phrases)

\* max(current_phrase_notes, key=pitch): the first of the highest notes
PhraseHighest(phrase) ==
    phrase[CHOOSE k \in 1..Len(phrase) :
              /\ \A j \in 1..Len(phrase) : phrase[j].midi <= phrase[k].midi
              /\ \A j \in 1..(k - 1) : phrase[j].midi < phrase[k].midi]

\* step 3 for the peak with index i (from 0): the points of the peak, the
\* phrase start and the phrase end, then the points of one or two notes of
\* the last phrase when that phrase has more than five notes
PhrasePoints(sc, phrases, i, min_pitch, pitch_range) ==
    LET phrase == phrases[i + 1]
        peak_note == PhraseHighest(phrase)
        peak_offset == peak_note.offset
        by_pitch == 60 + (IF pitch_range > 0
                          THEN Trunc((peak_note.midi - min_pitch) * 45, pitch_range)
                          ELSE 22)
        weighted == Trunc(by_pitch * BeatWeight(sc, peak_note), 100)
        central == IF i = Len(phrases) \div 2 THEN weighted + 10 ELSE weighted
        peak_value == Max2(Min2(central, 110), 45)
        start_offset == phrase[1].offset
        start_value == Max2(55, peak_value - 20)
        end_offset == phrase[Len(phrase)].offset + phrase[Len(phrase)].quarterLength
        end_value == Max2(45, peak_value - 25)
        current_phrase_notes == phrases[Len(phrases)]
        phrase_length == Len(current_phrase_notes)
        important_positions ==
            IF ~(i < phrase_length /\ phrase_length > 5) THEN <<>>
            ELSE IF phrase_length >= 10
            THEN << phrase_length \div 3, (phrase_length * 2) \div 3 >>
            ELSE << phrase_length \div 2 >>
        NoteValue(note_offset) ==
            IF note_offset < peak_offset
            THEN IF peak_offset > start_offset
                 THEN Trunc(start_value * (peak_offset - start_offset)
                              + (peak_value - start_value) * (note_offset - start_offset),
                            peak_offset - start_offset)
                 ELSE Trunc(2 * start_value + (peak_value - start_value), 2)
            ELSE IF end_offset > peak_offset
                 THEN Trunc(peak_value * (end_offset - peak_offset)
                              - (peak_value - end_value) * (note_offset - peak_offset),
                            end_offset - peak_offset)
                 ELSE Trunc(2 * peak_value - (peak_value - end_value), 2)
    IN  << <<peak_offset, peak_value>>, <<start_offset, start_value>>,
           <<end_offset, end_value>> >>
        \o [ k \in 1..Len(important_positions) |->
               LET note == current_phrase_notes[important_positions[k] + 1]
               IN  <<note.offset, NoteValue(note.offset)>> ]

\* the filter of points closer than one beat: a point less than a beat after
\* the last kept one replaces it when the values differ by more than 10
RECURSIVE FilterPoints(_, _)
FilterPoints(points, filtered_points) ==
    IF points = <<>> THEN filtered_points
    ELSE LET point == Head(points)
             n == Len(filtered_points)
         IN  IF n = 0 \/ point[1] - filtered_points[n][1] >= 4
             THEN FilterPoints(Tail(points), Append(filtered_points, point))
             ELSE IF Abs(filtered_points[n][2] - point[2]) > 10
             THEN FilterPoints(Tail(points),
                               [ filtered_points EXCEPT ![n] = point ])
             ELSE FilterPoints(Tail(points), filtered_points)

\* the points of a part that has measures and notes, sorted and filtered
FilteredPoints(sc, idx) ==
    LET notes == sc.parts[idx].notes
        pitches == { notes[k].midi : k \in 1..Len(notes) }
        min_pitch == CHOOSE p \in pitches : \A q \in pitches : p <= q
        max_pitch == CHOOSE p \in pitches : \A q \in pitches : p >= q
        phrases == BaroquePhrases(notes, <<>>, <<>>)
    IN  FilterPoints(
            SortByFirst(<< <<0, 70>>, <<HighestTime(sc), 65>> >>
                \o Flatten([ i \in 1..Len(phrases) |->
                     PhrasePoints(sc, phrases, i - 1, min_pitch,
                                  max_pitch - min_pitch) ])),
            <<>>)

\* variant of InterpolatedPoints with the threshold at 4 beats
RECURSIVE InterpolatedPointsFourBeats(_, _)
InterpolatedPointsFourBeats(points, i) ==
    IF i > Len(points) THEN <<>>
    ELSE LET curr == points[i]
             prev == points[i - 1]
         IN  (IF curr[1] - prev[1] > 16
              THEN << << prev[1] + (curr[1] - prev[1]) \div 2,
                         Trunc(2 * prev[2] + (curr[2] - prev[2]), 2) >> >>
              ELSE <<>>)
             \o InterpolatedPointsFourBeats(points, i + 1)

\* step 4: one point in the middle of two neighbours more than 8 beats apart
RECURSIVE InterpolatedPoints(_, _)
InterpolatedPoints(points, i) ==
    IF i > Len(points) THEN <<>>
    ELSE LET curr == points[i]
             prev == points[i - 1]
         IN  (IF curr[1] - prev[1] > 32
              THEN << << prev[1] + (curr[1] - prev[1]) \div 2,
                         Trunc(2 * prev[2] + (curr[2] - prev[2]), 2) >> >>
              ELSE <<>>)
             \o InterpolatedPoints(points, i + 1)

\* one round of the loop over the parts
PartDynamics(sc, idx) ==
    IF ~sc.parts[idx].measures \/ sc.parts[idx].notes = <<>>
    THEN << <<0, 70>>, <<HighestTime(sc), 65>> >>
    ELSE LET filtered_points == FilteredPoints(sc, idx)
         IN  SortByFirst(filtered_points
                         \o InterpolatedPoints(filtered_points, 2))

\* extract_dynamic_points_baroque(score)
ExtractDynamicPointsBaroque(sc) ==
    [ idx \in 1..Len(sc.parts) |-> PartDynamics(sc, idx) ]

\* scores: every part is a pattern of up to MaxPartNotes notes; odd notes
\* last dur, even notes a beat and follow a rest of gap; the last part may
\* come without measures
RECURSIVE PatternNotes(_, _, _, _, _)
PatternNotes(n, step, dur, gap, sofar) ==
    IF Len(sofar) = n THEN sofar
    ELSE LET k == Len(sofar) + 1
             after == IF k = 1 THEN 0
                      ELSE sofar[k - 1].offset + sofar[k - 1].quarterLength
         IN  PatternNotes(n, step, dur, gap,
                 Append(sofar,
                     ScoreNote(after + (IF k % 2 = 0 THEN gap ELSE 0),
                               IF k % 2 = 1 THEN dur ELSE 4,
                               60 + step * ((k - 1) % 3))))

Scores ==
    { [ time_signature |-> ts,
        parts |-> [ p \in 1..Len(sizes) |->
                      [ measures |-> ~(flat /\ p = Len(sizes)),
                        notes |-> PatternNotes(sizes[p], step, dur, gap, <<>>) ] ] ] :
        ts \in {"4/4", "3/4"}, step \in {0, 5}, dur \in {2, 12, 32, 40},
        gap \in {0, 8, 160}, flat \in BOOLEAN,
        sizes \in SeqsUpTo(0..MaxPartNotes, MaxParts) }

-----------------------------------------------------------------------------
(* The interpreter as a state machine *)

\* the state NoteLevelInterpreter.__init__ leaves behind
Constructed(run) ==
    /\ pc = "start"
    /\ midi = run.midi
    /\ cfg = run.cfg
    /\ enabled = run.enabled
    /\ env = run.env
    /\ voices = <<>>
    /\ ticks_per_beat = 480
    /\ conductor = OrchestralConductor(run.cfg.expressiveness,
                       Trunc(run.cfg.rubato_strength * 9, 10), 800)
    /\ cursor = <<0, 0>>
    /\ cache = EmptyDict
    /\ rules = [ current_sequence |-> <<>>, current_repetitions |-> EmptyDict ]
    /\ stats = LoadedStats(<<>>)
    /\ rule_stats = EmptyDict
    /\ log = [ stages |-> <<>>, validations |-> 0, ran |-> {},
               captured |-> <<>> ]
    /\ score = NoScore
    /\ voice_dynamics = <<>>
    /\ output = <<>>

Init == \E run \in Runs : Constructed(run)

Next ==
    \/ LoadMidi
    \/ BeginInterpret
    \/ InterpretNote
    \/ SkipVoice
    \/ EndRulePass
    \/ ValidatePass
    \/ Finalize
    \/ SaveMidi
    \/ ProcessMidiWithInterpretation

Spec == Init /\ [][Next]_vars

-----------------------------------------------------------------------------
(* The conductor on its own: analyze_structure, then create_agogic_map *)

\* expressiveness, wave strength and wave complexity at the ends and in the
\* middle of [0, 1]
UnitValues == {0, 500, 1000}

\* a voice of three-note phrases, gap ticks of silence between two phrases
PhrasedTrack(gap, phrases) ==
    TrackOf([ k \in 1..(3 * phrases) |->
                NoteSpec(60, 64, IF k > 1 /\ k % 3 = 1 THEN gap ELSE 0, 960) ], 0)

ConductorTracks ==
    { TrackOf(<< NoteSpec(60, 64, 0, 960) >>, 0) }
    \cup { PhrasedTrack(gap, phrases) :
             gap \in {500, 2000}, phrases \in 2..MaxPhrases }

\* failures the conductor handles by itself
ConductorFailureSets ==
    { NoFailure,
      { <<"conductor", "analysis">> }, { <<"conductor", "wave">> },
      { <<"conductor", "wave">>, <<"conductor", "sin">> },
      { <<"conductor", "overlay">> },
      { <<"conductor", "overlay">>, <<"conductor", "sin">> } }

\* OrchestralConductor(expressiveness, wave_strength, wave_complexity) next
\* to the analyzed voices of a score: up to MaxVoices voices, alone or
\* (in the runs without failures) followed by MaxVoices one-note voices,
\* which have no phrase
InitConductor ==
    \E phrased \in SeqsUpTo(ConductorTracks, MaxVoices), padding \in {0, MaxVoices},
       expressiveness \in UnitValues, wave_strength \in UnitValues,
       wave_complexity \in UnitValues, failures \in ConductorFailureSets :
      LET tracks == phrased \o [ k \in 1..padding |->
                                   TrackOf(<< NoteSpec(60, 64, 0, 960) >>, 0) ]
      IN
        /\ padding > 0 => failures = NoFailure
        /\ pc = "constructed"
        /\ midi = MidiFile(480, tracks)
        /\ cfg = DefaultCfg
        /\ enabled = AllEnabled
        /\ env = Environment(failures, {0}, {Phases0, Phases1})
        /\ voices = LoadedVoices(MidiFile(480, tracks), {})
        /\ ticks_per_beat = 480
        /\ conductor = OrchestralConductor(expressiveness, wave_strength,
                                           wave_complexity)
        /\ cursor = <<0, 0>>
        /\ cache = EmptyDict
        /\ rules = [ current_sequence |-> <<>>,
                     current_repetitions |-> EmptyDict ]
        /\ stats = LoadedStats(<<>>)
        /\ rule_stats = EmptyDict
        /\ log = [ stages |-> <<>>, validations |-> 0, ran |-> {},
                   captured |-> <<>> ]
        /\ score = NoScore
        /\ voice_dynamics = <<>>
    /\ output = <<>>

\* analyze_structure(voices)
ConductorAnalyzeStructure ==
    /\ pc = "constructed"
    /\ conductor' = AnalyzeStructure(conductor, voices,
                                     Failing(<<"conductor", "analysis">>))
    /\ pc' = "analyzed"
    /\ UNCHANGED <<score, voice_dynamics, output>>
    /\ UNCHANGED <<midi, cfg, enabled, env, voices, ticks_per_beat, cursor,
                   cache, rules, stats, rule_stats, log>>

\* create_agogic_map()
ConductorCreateAgogicMap ==
    /\ pc = "analyzed"
    /\ \E phases \in env.phases :
         conductor' = CreateAgogicMap(conductor, phases,
                          { f \in {"wave", "sin", "overlay", "fallback"} :
                              Failing(<<"conductor", f>>) }).conductor
    /\ pc' = "mapped"
    /\ UNCHANGED <<score, voice_dynamics, output>>
    /\ UNCHANGED <<midi, cfg, enabled, env, voices, ticks_per_beat, cursor,
                   cache, rules, stats, rule_stats, log>>

NextConductor ==
    \/ ConductorAnalyzeStructure
    \/ ConductorCreateAgogicMap

SpecConductor == InitConductor /\ [][NextConductor]_vars

-----------------------------------------------------------------------------
(* The curve extraction as a state machine *)

InitDynamics ==
    \E sc \in Scores :
        /\ pc = "score_parsed"
        /\ score = sc
        /\ voice_dynamics = <<>>
    /\ output = <<>>
        /\ midi = MidiFile(480, <<>>)
        /\ cfg = DefaultCfg
        /\ enabled = AllEnabled
        /\ env = Environment(NoFailure, {0}, {Phases0})
        /\ voices = <<>>
        /\ ticks_per_beat = 480
        /\ conductor = OrchestralConductor(500, 540, 800)
        /\ cursor = <<0, 0>>
        /\ cache = EmptyDict
        /\ rules = [ current_sequence |-> <<>>,
                     current_repetitions |-> EmptyDict ]
        /\ stats = LoadedStats(<<>>)
        /\ rule_stats = EmptyDict
        /\ log = [ stages |-> <<>>, validations |-> 0, ran |-> {},
                   captured |-> <<>> ]

\* extract_dynamic_points(score)
ExtractDynamicPoints ==
    /\ pc = "score_parsed"
    /\ voice_dynamics' = ExtractDynamicPointsBaroque(score)
    /\ pc' = "dynamics_extracted"
    /\ UNCHANGED <<score, output, midi, cfg, enabled, env, voices, ticks_per_beat,
                   conductor, cursor, cache, rules, stats, rule_stats, log>>

NextDynamics == ExtractDynamicPoints

SpecDynamics == InitDynamics /\ [][NextDynamics]_vars

-----------------------------------------------------------------------------
(* Properties *)

\* every note of every voice
NotesOf(vs) ==
    UNION { { vs[v].notes[k] : k \in 1..Len(vs[v].notes) } : v \in 1..Len(vs) }

\* interpret() has run its safety pass
InterpretDone == pc \in {"validated", "finalized", "saved"}

AllRulesDisabled == \A name \in RuleNames : ~enabled[name]

\* the tiers of the duration contract, by the original length in beats: up
\* to 1/16 of a beat 90 %, up to 1/8 80 %, up to 1/4 70 %, longer 60 %
TierPercent(d, tpb) ==
    CASE 16 * d <= tpb -> 90
      [] 16 * d > tpb /\ 8 * d <= tpb -> 80
      [] 8 * d > tpb /\ 4 * d <= tpb -> 70
      [] OTHER -> 60

\* the floor of a note in whole ticks: the larger of the absolute floor
\* (half the note, never under 2 ticks) and the tier's share of the note
DurationFloor(d, tpb) ==
    LET absolute == IF d \div 2 > 2 THEN d \div 2 ELSE 2
        share == (TierPercent(d, tpb) * d) \div 100
    IN  IF absolute > share THEN absolute ELSE share

ZeroLengthInFile ==
    \E t \in 1..Len(midi.tracks) :
        \E k \in 1..Len(midi.tracks[t]) :
            /\ midi.tracks[t][k].time = 0
            /\ \/ midi.tracks[t][k].type = "note_off"
               \/ midi.tracks[t][k].velocity = 0

\* C2: load_midi never creates a note with original_duration <= 0, and at
\* the end of the pipeline adjusted_duration > 0 for every note
C2_PositiveDurations ==
    /\ pc # "start" =>
         \A n \in NotesOf(voices) : n.original_duration > 0
    /\ pc \in {"validated", "finalized", "saved", "processed"} =>
         \A n \in NotesOf(voices) : n.adjusted_duration > 0

\* a file with a zero-length note, loaded and interpreted, in which a rule
\* shortened a note
C2_Witness ==
    /\ pc = "validated"
    /\ ZeroLengthInFile
    /\ \E n \in NotesOf(voices) : n.original_duration = 1
    /\ \E n \in NotesOf(voices) : n.adjusted_duration < n.original_duration

\* C3: pitch, velocity, original_start_time and original_duration of every
\* note are the same after voice analysis, the rules, the safety pass and
\* the hand-off to a writer as when they were captured
C3_OriginalsUntouched ==
    pc # "start" => Captured(voices) = log.captured

\* C4: with every rule disabled, after interpret() every note's adjusted
\* start, duration and velocity equal the originals and the safety pass
\* corrects nothing
C4_DisabledRulesChangeNothing ==
    (AllRulesDisabled /\ InterpretDone) =>
        /\ \A n \in NotesOf(voices) :
             /\ n.adjusted_start_time = n.original_start_time
             /\ n.adjusted_duration = n.original_duration
             /\ n.adjusted_velocity = n.velocity
        /\ stats.corrected_durations = 0

\* the notes of one tick
OneTickNotes(vs) ==
    { <<v, k>> \in (1..Len(vs)) \X (1..MaxOfSeq([ w \in 1..Len(vs) |->
                                                  Len(vs[w].notes) ])) :
        k <= Len(vs[v].notes) /\ vs[v].notes[k].original_duration = 1 }

\* C4, amended: with every rule disabled, after interpret() every note's
\* adjusted start and velocity equal the originals, and so does the adjusted
\* duration of every note of at least two ticks; a note of one tick is
\* raised to two ticks, and these are the only corrections
C4_DisabledRulesKeepAllButOneTickNotes ==
    (AllRulesDisabled /\ InterpretDone) =>
        /\ \A n \in NotesOf(voices) :
             /\ n.adjusted_start_time = n.original_start_time
             /\ n.adjusted_velocity = n.velocity
             /\ n.original_duration >= 2 =>
                    n.adjusted_duration = n.original_duration
             /\ n.original_duration = 1 => n.adjusted_duration = 2
        /\ stats.corrected_durations = Cardinality(OneTickNotes(voices))

\* a run with every rule disabled over a one-tick note and a longer one
C4_Witness ==
    /\ AllRulesDisabled
    /\ pc = "validated"
    /\ \E n \in NotesOf(voices) : n.original_duration = 1
    /\ \E n \in NotesOf(voices) : n.original_duration >= 2

\* C5: a second safety pass right after the first changes no note and
\* corrects nothing
C5_SafetyPassIdempotent ==
    pc = "validated" =>
        LET again == ValidateAndFixNoteDurations(voices, ticks_per_beat)
        IN  /\ again.voices = voices
            /\ again.corrected_notes = 0

\* the first pass has corrected a note that rules had shortened
C5_Witness ==
    /\ pc = "validated"
    /\ stats.corrected_durations > 0
    /\ rule_stats # EmptyDict

\* C6: after analyze_structure and create_agogic_map the agogic map has an
\* entry for every measure in [0, measure_count), none outside, and every
\* entry lies in [-1, 1], whatever the phrase boundaries, cadences, gravity
\* centers, expressiveness, wave strength and wave complexity
C6_AgogicMapDenseAndBounded ==
    pc = "mapped" =>
        /\ conductor.stats.measure_count > 0
        /\ DOMAIN conductor.agogic_map =
               0..(conductor.stats.measure_count - 1)
        /\ \A m \in DOMAIN conductor.agogic_map :
               conductor.agogic_map[m] >= -1000
               /\ conductor.agogic_map[m] <= 1000

\* a map over several phrases in which stacked overlays were cut at the
\* upper bound
C6_Witness ==
    /\ pc = "mapped"
    /\ Len(conductor.phrase_boundaries) >= 2
    /\ conductor.cadences # <<>>
    /\ conductor.gravity_centers # EmptyDict
    /\ conductor.expressiveness = 1000
    /\ \E m \in DOMAIN conductor.agogic_map : conductor.agogic_map[m] = 1000
    /\ \E m \in DOMAIN conductor.agogic_map : conductor.agogic_map[m] < 0

\* C7: whatever fails in structure analysis or wave generation, when rule
\* application starts the agogic map is non-empty and has an entry for
\* every measure in [0, measure_count)
C7_MapNeverEmptyAtRulePass ==
    pc = "structure_analyzed" =>
        /\ DOMAIN conductor.agogic_map # {}
        /\ DOMAIN conductor.agogic_map =
               0..(conductor.stats.measure_count - 1)

\* the pitches of a voice, summed
PitchSum(voice) == SumSeq([ k \in 1..Len(voice.notes) |-> voice.notes[k].pitch ])

\* the role the average pitch sum / n calls for: above 70 melody, below 50
\* bass, inner voice from 50 to 70 inclusive
RoleByAverage(sum, n) ==
    CASE sum > 70 * n -> "melody"
      [] sum < 50 * n -> "bass"
      [] OTHER -> "inner_voice"

\* C8: every voice's role is melody, bass, inner voice or unknown; an
\* analysed voice is melody above an average pitch of 70, bass below 50 and
\* inner voice otherwise, 50 and 70 included; voices of equal average pitch
\* get equal roles
C8_RoleByAveragePitch ==
    /\ \A v \in 1..Len(voices) :
         /\ voices[v].role \in {"melody", "bass", "inner_voice", "unknown"}
         /\ IF Failing(<<"analyze", v - 1>>)
            THEN voices[v].role = "unknown"
            ELSE voices[v].role =
                     RoleByAverage(PitchSum(voices[v]), Len(voices[v].notes))
    /\ \A v, w \in 1..Len(voices) :
         ( /\ ~Failing(<<"analyze", v - 1>>)
           /\ ~Failing(<<"analyze", w - 1>>)
           /\ PitchSum(voices[v]) * Len(voices[w].notes)
                = PitchSum(voices[w]) * Len(voices[v].notes) )
         => voices[v].role = voices[w].role

\* an analysed voice whose average pitch is exactly 70
C8_Witness ==
    /\ pc = "loaded"
    /\ \E v \in 1..Len(voices) :
         /\ Len(voices[v].notes) >= 2
         /\ PitchSum(voices[v]) = 70 * Len(voices[v].notes)
         /\ voices[v].role = "inner_voice"

StageOrder ==
    << "loaded", "structure_analyzed", "rules_applied", "validated", "finalized" >>

\* C9: a run goes through Loaded, StructureAnalyzed, RulesApplied, Validated
\* and Finalized in this order: no rule runs before the structure analysis,
\* the safety pass runs after the rule pass of every voice and exactly once,
\* and statistics are final only after it
C9_StageOrder ==
    /\ Len(log.stages) <= Len(StageOrder)
    /\ log.stages = SubSeq(StageOrder, 1, Len(log.stages))
    /\ pc \in {"saved", "processed"} => log.stages = StageOrder
    /\ pc \notin {"start", "saved", "processed"} =>
         (log.stages # <<>> /\ log.stages[Len(log.stages)] = pc)
    /\ pc = "start" => log.stages = <<>>
    /\ log.ran # {} => Len(log.stages) >= 2
    /\ Len(log.stages) >= 3 => cursor[1] >= Len(voices)
    /\ log.validations = IF Len(log.stages) >= 4 THEN 1 ELSE 0
    /\ Len(log.stages) < 4 => stats.corrected_durations = 0

\* a finished run in which rules ran and the safety pass corrected a note
C9_Witness ==
    /\ pc = "finalized"
    /\ log.stages = StageOrder
    /\ log.validations = 1
    /\ log.ran # {}
    /\ stats.corrected_durations > 0

\* every enabled rule ran on every note, except where the rule, the note or
\* the voice failed
FailuresIsolated ==
    \A v \in 1..Len(voices) :
        \A i \in 1..Len(voices[v].notes) :
            LET names == RuleSets[VoiceType(voices[v].role)]
            IN  \A k \in 1..Len(names) :
                    ( /\ enabled[names[k]]
                      /\ ~Failing(<<"voice", v - 1>>)
                      /\ ~Failing(<<"note", v - 1, i - 1>>)
                      /\ ~Failing(<<"rule", v - 1, i - 1, k>>)
                      /\ ~( /\ names[k] = "pre_leap"
                            /\ Failing(<<"param", "pre_leap", "min_duration">>)
                            /\ Abs(voices[v].notes[i].interval_to_next) > 4
                            /\ HasNext(voices[v].notes[i]) ) )
                    => <<v - 1, i - 1, names[k]>> \in log.ran

\* C10: a rule that raises on a note is skipped and the remaining rules of
\* that note still run; a note that fails is skipped and the remaining notes
\* of the voice are still processed; a voice that fails is skipped and the
\* remaining voices are still processed; interpret() still runs the safety
\* pass and comes to its end
C10_FailureIsolation ==
    [][ /\ Len(log'.stages) >= 3 => FailuresIsolated'
        /\ pc = "structure_analyzed" =>
             \/ /\ pc' = "structure_analyzed"
                /\ cursor[1] < Len(voices)
                /\ cursor[2] < Len(voices[cursor[1] + 1].notes)
                /\ cursor' = IF Failing(<<"voice", cursor[1]>>)
                             THEN <<cursor[1] + 1, 0>>
                             ELSE NextCursor(voices, cursor[1], cursor[2])
             \/ /\ pc' = "rules_applied"
                /\ cursor[1] = Len(voices)
        /\ pc = "rules_applied" => (pc' = "validated" /\ log'.validations = 1)
        /\ pc = "validated" => (pc' = "finalized" /\ log'.validations = 1)
      ]_vars

\* a finished run in which the first rule of the first note raised and the
\* second rule of that note ran, as did the rules of the next note
C10_Witness ==
    /\ pc = "finalized"
    /\ Failing(<<"rule", 0, 0, 1>>)
    /\ enabled[RuleSets[VoiceType(voices[1].role)][1]]
    /\ <<0, 0, RuleSets[VoiceType(voices[1].role)][1]>> \notin log.ran
    /\ <<0, 0, RuleSets[VoiceType(voices[1].role)][2]>> \in log.ran
    /\ <<0, 1, RuleSets[VoiceType(voices[1].role)][1]>> \in log.ran

\* the adjusted values of a voice's notes
AdjustedValues(ns) ==
    [ k \in 1..Len(ns) |-> << ns[k].adjusted_start_time,
                              ns[k].adjusted_duration,
                              ns[k].adjusted_velocity >> ]

\* the calls rule.apply(note, voice, context) of the rule loop for note i:
\* the rule, its position in the rule set, the notes it found and left, its
\* return value, and whether it raised instead of returning
RECURSIVE RuleCalls(_, _, _, _, _, _, _, _)
RuleCalls(names, k, ns, i, ctx, st, draw, raising) ==
    IF k > Len(names) THEN {}
    ELSE IF ~enabled[names[k]]
    THEN RuleCalls(names, k + 1, ns, i, ctx, st, draw, raising)
    ELSE IF k \in raising \/ InterruptedApply(names[k], ns, i, ctx).raised
    THEN LET left == IF k \in raising THEN ns
                     ELSE InterruptedApply(names[k], ns, i, ctx).notes
         IN  { [ rule |-> names[k], position |-> k, before |-> ns,
                 after |-> left, applied |-> FALSE, raised |-> TRUE ] }
             \cup RuleCalls(names, k + 1, left, i, ctx, st, draw, raising)
    ELSE LET out == ApplyRule(names[k], ns, i, ctx, st, draw)
         IN  { [ rule |-> names[k], position |-> k, before |-> ns,
                 after |-> out.notes, applied |-> out.applied,
                 raised |-> FALSE ] }
             \cup RuleCalls(names, k + 1, out.notes, i, ctx, out.st, draw,
                            raising)

\* the note loop of _interpret_voice is about to process the note at the
\* cursor
NoteAtCursor ==
    /\ pc = "structure_analyzed"
    /\ cursor[1] < Len(voices)
    /\ ~Failing(<<"voice", cursor[1]>>)

\* the timing_direction_bias the note at the cursor gets
BiasAtCursor ==
    LET note == voices[cursor[1] + 1].notes[cursor[2] + 1]
        measure == GetMeasureNumber(note, ticks_per_beat)
    IN  IF measure \in DOMAIN cache THEN cache[measure]
        ELSE GetTimingDirection(conductor, measure, note.metric_position,
                 ticks_per_beat, Failing(<<"direction", cursor[1], cursor[2]>>))

\* the rule calls the next step of the note loop makes, raising ones
\* included
AttemptsAtCursor ==
    IF NoteAtCursor /\ ~Failing(<<"note", cursor[1], cursor[2]>>)
    THEN LET voice == voices[cursor[1] + 1]
             names == RuleSets[VoiceType(voice.role)]
         IN  UNION { RuleCalls(names, 1, voice.notes, cursor[2],
                         InterpretationContext(ticks_per_beat, cfg, BiasAtCursor),
                         rules, [ flow |-> s, jitter |-> s ],
                         { k \in 1..Len(names) :
                             Failing(<<"rule", cursor[1], cursor[2], k>>) }) :
                     s \in env.draws }
    ELSE {}

\* those of them that return
CallsAtCursor == { c \in AttemptsAtCursor : ~c.raised }

CallsWith(names, s) ==
    RuleCalls(names, 1, voices[cursor[1] + 1].notes, cursor[2],
              InterpretationContext(ticks_per_beat, cfg, BiasAtCursor),
              rules, [ flow |-> s, jitter |-> s ],
              { k \in 1..Len(names) :
                  Failing(<<"rule", cursor[1], cursor[2], k>>) })

\* the notes a set of calls leaves behind: those of its last call
NotesAfter(calls, ns) ==
    IF calls = {} THEN ns
    ELSE (CHOOSE c \in calls : \A d \in calls : d.position <= c.position).after

RuleCount(rs, voice_type, name) ==
    IF <<voice_type, name>> \in DOMAIN rs THEN rs[<<voice_type, name>>] ELSE 0

\* one step of the note loop applies exactly the enabled rules of the rule
\* set names to its note, once each and in registration order, and counts
\* the calls that returned true under voice_type
StepAppliesExactly(names, voice_type) ==
    \E s \in env.draws :
        LET calls == CallsWith(names, s)
        IN  /\ log'.ran \ log.ran =
                   { <<cursor[1], cursor[2], c.rule>> :
                       c \in { d \in calls : ~d.raised } }
            /\ voices'[cursor[1] + 1].notes =
                   NotesAfter(calls, voices[cursor[1] + 1].notes)
            /\ \A t \in DOMAIN RuleSets : \A name \in RuleNames :
                   RuleCount(rule_stats', t, name) - RuleCount(rule_stats, t, name)
                   = IF t = voice_type
                        /\ \E c \in calls : c.rule = name /\ c.applied
                     THEN 1 ELSE 0

\* a step of the note loop on a note that does not fail
NoteStep ==
    /\ NoteAtCursor
    /\ ~Failing(<<"note", cursor[1], cursor[2]>>)
    /\ cursor' # cursor

RulesOfTheVoicesRoleOrMelody ==
    [][ NoteStep =>
          LET role == voices[cursor[1] + 1].role
          IN  CASE role = "bass" -> StepAppliesExactly(RuleSets.bass, "bass")
                [] role = "inner_voice" -> StepAppliesExactly(RuleSets.inner, "inner")
                [] role \in {"melody", "unknown"} ->
                       StepAppliesExactly(RuleSets.melody, "melody")
      ]_vars

\* the calls of the melody short_note rule on a 60-tick note at 480 ticks
\* per beat with articulation_strength 1.0
ShortNoteScenarioCalls ==
    { c \in CallsAtCursor :
        /\ c.rule = "short_note"
        /\ ticks_per_beat = 480
        /\ cfg.articulation_strength = 1000
        /\ c.before[cursor[2] + 1].original_duration = 60 }

ZeroVoicesAnalyzed == pc = "analyzed" /\ voices = <<>>

\* the measures whose gravity center has the given strength
GravityAt(strength) ==
    { m \in DOMAIN conductor.gravity_centers :
        conductor.gravity_centers[m] = strength }

DefaultPhrasesAndCadences ==
    /\ conductor.stats.measure_count = 16
    /\ conductor.phrase_boundaries = << <<0, 7>>, <<8, 15>> >>
    /\ conductor.cadences = <<7, 15>>
    /\ GravityAt(600) = {7, 15}
    /\ DOMAIN conductor.gravity_centers = GravityAt(600) \cup GravityAt(300)

\* C14: analyze_structure with zero voices yields 16 measures, the phrase
\* boundaries (0,7) and (8,15), cadences at measures 7 and 15 with gravity
\* 0.6, and gravity centers of strength 0.3 exactly at measures 3 and 11
C14_DefaultStructureMidThree ==
    ZeroVoicesAnalyzed => DefaultPhrasesAndCadences /\ GravityAt(300) = {3, 11}

\* C14, amended: as C14, the gravity centers of strength 0.3 being exactly at
\* measures 4 and 12
C14_DefaultStructureMidFour ==
    ZeroVoicesAnalyzed => DefaultPhrasesAndCadences /\ GravityAt(300) = {4, 12}

\* the conductor has analyzed a score without voices and holds four gravity
\* centers
C14_Witness ==
    /\ ZeroVoicesAnalyzed
    /\ Cardinality(DOMAIN conductor.gravity_centers) = 4

\* the single voice is the inner voice of four quarter notes with pitches
\* 60 62 64 62, every inner rule is enabled and dynamics_strength is 1.0
StepwiseInnerVoice ==
    /\ Len(voices) = 1
    /\ voices[1].role = "inner_voice"
    /\ Len(voices[1].notes) = 4
    /\ \A k \in 1..4 :
         /\ voices[1].notes[k].pitch = <<60, 62, 64, 62>>[k]
         /\ voices[1].notes[k].original_duration = midi.ticks_per_beat
    /\ \A k \in 1..Len(RuleSets.inner) : enabled[RuleSets.inner[k]]
    /\ cfg.dynamics_strength = 1000
    /\ env.failures = NoFailure

RulePassOver ==
    pc \in {"rules_applied", "validated", "finalized", "saved", "processed"}

\* no inner rule other than the base-velocity and the contour rule changes a
\* velocity
OtherInnerRulesKeepVelocity ==
    StepwiseInnerVoice =>
        \A c \in CallsAtCursor :
            c.rule \notin {"inner_base_velocity", "inner_contour"} =>
                \A k \in 1..4 :
                    c.after[k].adjusted_velocity = c.before[k].adjusted_velocity

\* C15: in the inner voice 60 62 64 62 at dynamics_strength 1.0, notes 1, 2
\* and 4 end with adjusted_velocity round(velocity * 0.95), note 3 with the
\* contour boost of 8 % on top of that, and no other inner rule changes a
\* velocity
C15_StepwiseVelocitiesRounded ==
    /\ OtherInnerRulesKeepVelocity
    /\ StepwiseInnerVoice /\ RulePassOver =>
         \A k \in 1..4 :
            LET n == voices[1].notes[k]
                base == RoundHalfEven(n.velocity * 95, 100)
            IN  n.adjusted_velocity =
                    IF k = 3 THEN Min2(127, Trunc(base * 108, 100)) ELSE base

\* C15, amended: notes 1, 2 and 4 end with adjusted_velocity
\* int(velocity * 0.95), the product rounded down, note 3 with
\* min(127, int(1.08 * that)), and no other inner rule changes a velocity
C15_StepwiseVelocitiesTruncated ==
    /\ OtherInnerRulesKeepVelocity
    /\ StepwiseInnerVoice /\ RulePassOver =>
         \A k \in 1..4 :
            LET n == voices[1].notes[k]
                base == Trunc(n.velocity * 95, 100)
            IN  n.adjusted_velocity =
                    IF k = 3 THEN Min2(127, Trunc(base * 108, 100)) ELSE base

\* the rule pass over the voice is done for a velocity that 0.95 does not
\* take to a whole number
C15_Witness ==
    /\ StepwiseInnerVoice
    /\ pc = "rules_applied"
    /\ voices[1].notes[1].velocity = 64
    /\ voices[1].notes[1].adjusted_velocity = 60
    /\ voices[1].notes[3].adjusted_velocity = 64
    /\ \A k \in 1..Len(RuleSets.inner) : <<0, 3, RuleSets.inner[k]>> \in log.ran

\* the parts whose points go through the filter and step 4
PrunedParts ==
    { idx \in 1..Len(score.parts) :
        score.parts[idx].measures /\ score.parts[idx].notes # <<>> }

\* neighbours of the filtered points of a part that are more than 8 beats
\* apart
WideGaps(anchors) ==
    { k \in 2..Len(anchors) : anchors[k][1] - anchors[k - 1][1] > 32 }

\* the points of the final curve strictly between two offsets
PointsBetween(final, from, to) ==
    { j \in 1..Len(final) : from < final[j][1] /\ final[j][1] < to }

\* C16: in the score-phrase-based strategy every two neighbouring anchor
\* points left by the filter that are more than 8 beats apart get exactly
\* one point between them, however far apart they are, and neighbours 8
\* beats or less apart get none
C16_OneMidpointPerWideGap ==
    pc = "dynamics_extracted" =>
        \A idx \in PrunedParts :
            LET anchors == FilteredPoints(score, idx)
                final == voice_dynamics[idx]
            IN  /\ \A k \in 1..Len(anchors) :
                     \E j \in 1..Len(final) : final[j] = anchors[k]
                /\ Len(final) = Len(anchors) + Cardinality(WideGaps(anchors))
                /\ \A k \in 2..Len(anchors) :
                     Cardinality(PointsBetween(final, anchors[k - 1][1],
                                               anchors[k][1]))
                     = IF k \in WideGaps(anchors) THEN 1 ELSE 0

\* a curve with a single point between neighbours 40 beats or more apart and
\* none between neighbours at most 8 beats apart
C16_Witness ==
    /\ pc = "dynamics_extracted"
    /\ \E idx \in PrunedParts :
         LET anchors == FilteredPoints(score, idx)
             final == voice_dynamics[idx]
         IN  /\ \E k \in WideGaps(anchors) :
                  /\ anchors[k][1] - anchors[k - 1][1] >= 160
                  /\ Cardinality(PointsBetween(final, anchors[k - 1][1],
                                               anchors[k][1])) = 1
             /\ \E k \in 2..Len(anchors) :
                  /\ anchors[k][1] - anchors[k - 1][1] <= 32
                  /\ PointsBetween(final, anchors[k - 1][1], anchors[k][1]) = {}

\* the notes the loops have reached so far, the note at the cursor
\* included, that lie in the given measure: <<voice index, note index>>
SeenInMeasure(measure) ==
    { vi \in (0..cursor[1]) \X (0..(MaxOfSeq([ v \in 1..Len(voices) |->
                                                Len(voices[v].notes) ]))) :
        /\ vi[1] < Len(voices)
        /\ vi[2] < Len(voices[vi[1] + 1].notes)
        /\ vi[1] < cursor[1] \/ vi[2] <= cursor[2]
        /\ ~Failing(<<"voice", vi[1]>>)
        /\ GetMeasureNumber(voices[vi[1] + 1].notes[vi[2] + 1], ticks_per_beat)
           = measure }

\* C17: within one run get_timing_direction is evaluated at most once per
\* measure: a note in a measure that an earlier note of any voice was
\* in finds the bias in the cache, and gets the bias that first note got
C17_BiasOncePerMeasure ==
    NoteAtCursor =>
        LET note == voices[cursor[1] + 1].notes[cursor[2] + 1]
            measure == GetMeasureNumber(note, ticks_per_beat)
            first == CHOOSE f \in SeenInMeasure(measure) :
                        \A g \in SeenInMeasure(measure) :
                            f[1] < g[1] \/ (f[1] = g[1] /\ f[2] <= g[2])
        IN  /\ first # cursor => measure \in DOMAIN cache
            /\ BiasAtCursor =
                 GetTimingDirection(conductor, measure,
                     voices[first[1] + 1].notes[first[2] + 1].metric_position,
                     ticks_per_beat,
                     Failing(<<"direction", first[1], first[2]>>))

\* what the loops do: the cache serves the notes of one voice
BiasOncePerMeasureAndVoice ==
    NoteAtCursor =>
        LET note == voices[cursor[1] + 1].notes[cursor[2] + 1]
            measure == GetMeasureNumber(note, ticks_per_beat)
        IN  measure \in DOMAIN cache <=>
                \E g \in SeenInMeasure(measure) :
                    g[1] = cursor[1] /\ g[2] < cursor[2]

\* the state of rule instances nobody has called yet
NoRuleState == [ current_sequence |-> <<>>, current_repetitions |-> EmptyDict ]

\* what the rules do to note i of voice v when their instances are in state
\* st and the random source returns s
RulesOnNote(v, i, st, s) ==
    LET voice == voices[v + 1]
        names == RuleSets[VoiceType(voice.role)]
        measure == GetMeasureNumber(voice.notes[i + 1], ticks_per_beat)
        bias == IF measure \in DOMAIN cache THEN cache[measure] ELSE BiasAtCursor
    IN  ApplyRules(names, 1, voice.notes, i,
                   InterpretationContext(ticks_per_beat, cfg, bias), st,
                   [ flow |-> s, jitter |-> s ],
                   { k \in 1..Len(names) : Failing(<<"rule", v, i, k>>) },
                   [ fired |-> {}, ran |-> {} ])

\* the state the rule instances would be in before note i of voice v had
\* the rule pass begun with this voice (instances keep intervals and
\* pitches only, so the notes' adjusted values do not matter here)
RECURSIVE RulesOfVoiceAlone(_, _, _)
RulesOfVoiceAlone(v, i, s) ==
    IF i = 0 THEN NoRuleState
    ELSE IF Failing(<<"note", v, i - 1>>) THEN RulesOfVoiceAlone(v, i - 1, s)
    ELSE RulesOnNote(v, i - 1, RulesOfVoiceAlone(v, i - 1, s), s).st

\* C18: for a fixed map and fixed random draws the rules leave a voice's
\* notes with the values they would have without the voices processed
\* before it: no rule carries state from one voice into another
C18_VoicesIndependent ==
    NoteAtCursor /\ ~Failing(<<"note", cursor[1], cursor[2]>>) =>
        \A s \in env.draws :
            RulesOnNote(cursor[1], cursor[2], rules, s).notes
            = RulesOnNote(cursor[1], cursor[2],
                          RulesOfVoiceAlone(cursor[1], cursor[2], s), s).notes

\* what holds: the first voice of a run is treated as it would be alone
FirstVoiceIndependent ==
    NoteAtCursor /\ ~Failing(<<"note", cursor[1], cursor[2]>>) /\ cursor[1] = 0 =>
        \A s \in env.draws :
            RulesOnNote(0, cursor[2], rules, s)
            = RulesOnNote(0, cursor[2], RulesOfVoiceAlone(0, cursor[2], s), s)

\* the voices load_midi has analyzed
AnalyzedVoices ==
    IF pc # "loaded" THEN {}
    ELSE { v \in 1..Len(voices) :
             ~Failing(<<"analyze", v - 1>>) /\ voices[v].notes # <<>> }

PrevEnd(ns, i) == ns[i].original_start_time + ns[i].original_duration

\* the first three conditions for closing the phrase before note i (from 0)
ClosesByNeighbours(ns, i) ==
    \/ ns[i + 1].original_start_time - PrevEnd(ns, i) > ticks_per_beat
    \/ ns[i].original_duration > 2 * ticks_per_beat
    \/ Abs(ns[i + 1].pitch - ns[i].pitch) > 7

\* the indices before which a phrase is closed when a phrase of four notes
\* or more is also closed before a note on a downbeat
RECURSIVE CutsWithDownbeat(_, _, _)
CutsWithDownbeat(ns, i, current_phrase_start) ==
    IF i >= Len(ns) THEN {}
    ELSE IF \/ ClosesByNeighbours(ns, i)
            \/ (i - current_phrase_start >= 4 /\ ns[i + 1].is_downbeat)
    THEN {i} \cup CutsWithDownbeat(ns, i + 1, i)
    ELSE CutsWithDownbeat(ns, i + 1, current_phrase_start)

\* the phrases that cuts at the given indices leave: the stretches between
\* two cuts that have three notes or more, the last of them of kind final
PhrasesOfCuts(ns, cuts) ==
    { <<a, b, IF b = Len(ns) - 1 THEN "final" ELSE "standard">> :
        a \in {0} \cup cuts, b \in { c - 1 : c \in cuts \cup {Len(ns)} } } \cap
    { ph \in (0..Len(ns)) \X (0..Len(ns)) \X {"final", "standard"} :
        /\ ph[2] - ph[1] >= 2
        /\ \A c \in cuts : ~(ph[1] < c /\ c <= ph[2]) }

\* the phrase list of a voice holds exactly the given phrases, in order
RegistersExactly(voice, expected) ==
    /\ { voice.phrases[p] : p \in 1..Len(voice.phrases) } = expected
    /\ \A p \in 2..Len(voice.phrases) :
         voice.phrases[p - 1][2] < voice.phrases[p][1]

\* C19: the phrase before note i is closed exactly when the rest before the
\* note exceeds a beat, the note before it exceeds two beats, the interval
\* exceeds 7 semitones, or the phrase has four notes and note i is on a
\* downbeat; closed phrases of three notes or more are registered, and so is
\* the open phrase at the end, as final
C19_FourClosingConditions ==
    \A v \in AnalyzedVoices :
        RegistersExactly(voices[v],
            PhrasesOfCuts(voices[v].notes,
                          CutsWithDownbeat(voices[v].notes, 1, 0)))

\* C19, amended: the phrase before note i is closed exactly when one of the
\* first three conditions holds; a downbeat closes nothing; the phrase at
\* the end, like a closed one, is registered if it has three notes or more
C19_ThreeClosingConditions ==
    \A v \in AnalyzedVoices :
        RegistersExactly(voices[v],
            PhrasesOfCuts(voices[v].notes,
                { i \in 1..(Len(voices[v].notes) - 1) :
                    ClosesByNeighbours(voices[v].notes, i) }))

\* a voice with a closed and a final phrase, and one of five notes or more
\* that runs across a downbeat
C19_Witness ==
    \E v \in AnalyzedVoices :
        LET ns == voices[v].notes
        IN  /\ \E p \in 1..Len(voices[v].phrases) :
                 voices[v].phrases[p][3] = "standard"
            /\ voices[v].phrases[Len(voices[v].phrases)][3] = "final"
            /\ \E i \in 1..(Len(ns) - 1) :
                 ns[i + 1].original_start_time - PrevEnd(ns, i) > ticks_per_beat

\* a phrase of five notes or more that runs across a downbeat
DownbeatInsidePhrase ==
    \E v \in AnalyzedVoices :
        \E p \in 1..Len(voices[v].phrases) :
            \E i \in (voices[v].phrases[p][1] + 4)..voices[v].phrases[p][2] :
                voices[v].notes[i + 1].is_downbeat

CallsOf(name) == { c \in CallsAtCursor : c.rule = name }

\* the registered phrase that holds the note at the cursor, 0 for none
PhraseAtCursor == PhraseOfIndex(voices[cursor[1] + 1].phrases, cursor[2])

\* the note at the cursor lies in the first tenth of a registered phrase
InFirstTenthOfPhrase ==
    LET phrases == voices[cursor[1] + 1].phrases
        p == PhraseAtCursor
    IN  /\ p # 0
        /\ 10 * (cursor[2] - phrases[p][1]) < phrases[p][2] - phrases[p][1] + 1

\* C21: phrase_start returns true only for a note in the first 10% of a
\* registered phrase; for a note in no phrase, or later in its phrase, it
\* returns false and changes no adjusted value
C21_PhraseStartOnlyInFirstTenth ==
    \A c \in CallsOf("phrase_start") :
        /\ c.applied => InFirstTenthOfPhrase
        /\ ~InFirstTenthOfPhrase =>
             AdjustedValues(c.after) = AdjustedValues(c.before)

\* phrase_start takes a note that is in no phrase for a phrase start
PhraseStartOutsidePhrases ==
    \E c \in CallsOf("phrase_start") :
        /\ PhraseAtCursor = 0
        /\ c.applied
        /\ AdjustedValues(c.after) # AdjustedValues(c.before)

\* what the code does: phrase_start goes by the note's phrase_position alone
\* (0 for a note in no phrase); it returns true below 0.1, and from 0.1 to
\* below 0.2 for a note that has a predecessor
PhraseStartByPositionAlone ==
    \A c \in CallsOf("phrase_start") :
        LET n == c.before[cursor[2] + 1]
            pos == n.phrase_position
        IN  c.applied <=> \/ 10 * pos.num < pos.den
                          \/ 10 * pos.num < 2 * pos.den /\ HasPrev(n)

\* the number of identical intervals in a row that end at note i of ns,
\* counted within the voice (note 0 has no interval)
RECURSIVE IdenticalIntervals(_, _)
IdenticalIntervals(ns, i) ==
    IF i = 0 THEN 0
    ELSE IF i > 1 /\ ns[i].interval_to_prev = ns[i + 1].interval_to_prev
    THEN 1 + IdenticalIntervals(ns, i - 1)
    ELSE 1

\* start-time change of the note at the cursor made by a call
ShiftBy(c) ==
    c.after[cursor[2] + 1].adjusted_start_time
    - c.before[cursor[2] + 1].adjusted_start_time

\* C22: sequence_accel changes a note only when the note ends a run of at
\* least 3 identical consecutive intervals of its own voice (so after a
\* break nothing is accelerated until a new run of 3 has formed), and its
\* acceleration is never stronger than max_acceleration (0.9 of the
\* maximum timing change)
C22_SequenceAccelOnlyAfterThree ==
    \A c \in CallsOf("sequence_accel") :
        /\ AdjustedValues(c.after) # AdjustedValues(c.before) =>
             IdenticalIntervals(c.before, cursor[2]) >= 3
        /\ ShiftBy(c) <= 0
        /\ ShiftBy(c) >= Trunc(MaxTimingChange(ticks_per_beat, cfg.rubato_strength)
                               * (-900), 1000)

\* in a voice processed first, sequence_accel moves a note that ends a run
\* of only two identical intervals
SequenceAccelAfterTwo ==
    /\ cursor[1] = 0
    /\ \E c \in CallsOf("sequence_accel") :
         /\ IdenticalIntervals(c.before, cursor[2]) = 2
         /\ ShiftBy(c) < 0

\* what the code does: sequence_accel returns true exactly when the window
\* of the last five intervals it has been given, by whatever voice, holds
\* three or more of them and the newest two are equal; the acceleration
\* stays within 0.9 of the maximum timing change
SequenceAccelByWindow ==
    \A c \in CallsOf("sequence_accel") :
        LET n == c.before[cursor[2] + 1]
            seq == rules.current_sequence
        IN  /\ c.applied <=>
                 /\ HasPrev(n)
                 /\ Len(seq) >= 2
                 /\ seq[Len(seq)] = n.interval_to_prev
            /\ ShiftBy(c) <= 0
            /\ ShiftBy(c) >= Trunc(MaxTimingChange(ticks_per_beat, cfg.rubato_strength)
                                   * (-900), 1000)

\* the number of notes in a row, directly before note i of ns, that have
\* the pitch of note i: the repeats of the run that note i continues
RECURSIVE PitchRepeats(_, _)
PitchRepeats(ns, i) ==
    IF i = 0 \/ ns[i].pitch # ns[i + 1].pitch THEN 0
    ELSE 1 + PitchRepeats(ns, i - 1)

\* the note loop is at a note of a bass voice that repeats the pitch of the
\* note before it, and bass_repeated has been called on every earlier note
\* of the voice and is called on this one
BassRepeatAtCursor ==
    /\ CallsOf("bass_repeated") # {}
    /\ PitchRepeats(voices[cursor[1] + 1].notes, cursor[2]) >= 1
    /\ \A j \in 0..(cursor[2] - 1) : <<cursor[1], j, "bass_repeated">> \in log.ran

\* C23: at every note that repeats the pitch of the note before it, the
\* repetition counter of bass_repeated equals the number of consecutive
\* repeats in the current run of that pitch, whatever pitches came before;
\* the note is accelerated only when that count is >= 3, and by no more than
\* max_acceleration (0.2 of the maximum timing change)
C23_RepetitionCounterFollowsRun ==
    [][ (BassRepeatAtCursor /\ cursor' # cursor) =>
          LET voice == voices[cursor[1] + 1]
              n == voice.notes[cursor[2] + 1]
              repeats == PitchRepeats(voice.notes, cursor[2])
              key == <<n.track, n.channel, n.pitch>>
              mtc == MaxTimingChange(ticks_per_beat, cfg.rubato_strength)
          IN  /\ key \in DOMAIN rules'.current_repetitions
              /\ rules'.current_repetitions[key] = repeats
              /\ \A c \in CallsOf("bass_repeated") :
                   /\ c.applied
                   /\ ShiftBy(c) # 0 => repeats >= 3
                   /\ ShiftBy(c) <= 0
                   /\ ShiftBy(c) >= Trunc(mtc * (-200), 1000)
      ]_vars

\* a run of a pitch was broken by another pitch and has started again: the
\* note at the cursor is the first repeat of the new run, and its pitch was
\* repeated before the break
C23_Witness ==
    /\ BassRepeatAtCursor
    /\ LET ns == voices[cursor[1] + 1].notes
           i == cursor[2]
       IN  /\ PitchRepeats(ns, i) = 1
           /\ \E j \in 1..(i - 2) :
                /\ ns[j + 1].pitch = ns[i + 1].pitch
                /\ PitchRepeats(ns, j) >= 1

\* a note of a run of four or more repeats is moved earlier
BassRepeatAccelerated ==
    /\ BassRepeatAtCursor
    /\ \E c \in CallsOf("bass_repeated") : ShiftBy(c) < 0

\* analyze_structure has taken the route that groups the voices' phrases
PhrasesGrouped ==
    /\ pc = "analyzed"
    /\ ~Failing(<<"conductor", "analysis">>)
    /\ AllPhraseBoundaries(voices) # <<>>

\* the groups of phrase starts formed by analyze_structure
StartGroups ==
    GroupBoundaries(SortByFirst(AllPhraseBoundaries(voices)), <<>>, <<>>)

\* the voices that contribute a phrase to a group
VoicesIn(group) == { group[k][3] : k \in 1..Len(group) }

\* the (start, end) entry a promoted group leaves in phrase_boundaries
EntryOf(group) ==
    << RoundHalfEven(SumSeq([ k \in 1..Len(group) |-> group[k][1] ]), Len(group)),
       RoundHalfEven(SumSeq([ k \in 1..Len(group) |-> group[k][2] ]), Len(group)) >>

\* ceil(V / 3)
ThirdOfVoices == (Len(voices) + 2) \div 3

\* the groups in which at least ceil(V/3) of the V voices have a phrase
SupportedGroups ==
    SelectSeq(StartGroups, LAMBDA g : Cardinality(VoicesIn(g)) >= ThirdOfVoices)

\* C24: all phrase starts of one group lie within 1 measure of each other,
\* and only groups to which at least ceil(V/3) of the V voices contribute a
\* phrase become entries of phrase_boundaries
C24_GroupsOfAThirdOfTheVoices ==
    PhrasesGrouped =>
        /\ \A g \in 1..Len(StartGroups) :
             \A a, b \in 1..Len(StartGroups[g]) :
                 Abs(StartGroups[g][a][1] - StartGroups[g][b][1]) <= 1
        /\ Len(conductor.phrase_boundaries) <= Len(SupportedGroups)
        /\ \A e \in 1..Len(conductor.phrase_boundaries) :
             \E g \in 1..Len(SupportedGroups) :
                 conductor.phrase_boundaries[e] = EntryOf(SupportedGroups[g])

\* of four voices a single one has phrases, and its phrases are promoted
PromotedOnOneVoiceOfFour ==
    /\ PhrasesGrouped
    /\ Len(voices) = 4
    /\ \A g \in 1..Len(StartGroups) : Cardinality(VoicesIn(StartGroups[g])) = 1
    /\ conductor.phrase_boundaries # <<>>

\* one group holds phrase starts two or more measures apart
GroupSpansMeasures ==
    /\ PhrasesGrouped
    /\ \E g \in 1..Len(StartGroups) :
         \E a, b \in 1..Len(StartGroups[g]) :
             StartGroups[g][a][1] - StartGroups[g][b][1] >= 2

\* what the code does: a start joins the group whose latest start is at most
\* 1 measure before it, and a group becomes an entry exactly when it holds at
\* least max(1, floor(V/3)) phrases, whichever voices they come from
GroupsOfAThirdOfThePhrases ==
    PhrasesGrouped =>
        /\ \A g \in 1..Len(StartGroups) :
             \A a \in 2..Len(StartGroups[g]) :
                 StartGroups[g][a][1] - StartGroups[g][a - 1][1] \in {0, 1}
        /\ LET adopted == SelectSeq(StartGroups, LAMBDA g :
                              Len(g) >= Max2(1, Len(voices) \div 3))
           IN  conductor.phrase_boundaries =
                   [ e \in 1..Len(adopted) |-> EntryOf(adopted[e]) ]

\* the calls of the next step that raise
RaisedAtCursor == { c \in AttemptsAtCursor : c.raised }

\* C25: a rule application that raises is a no-op: the adjusted start time,
\* duration and velocity of the note and of its neighbours are after the
\* failed call what they were before it, and the rule's counter does not go
\* up
C25_FailedRuleIsNoOp ==
    [][ NoteStep =>
          \A c \in RaisedAtCursor :
              /\ AdjustedValues(c.after) = AdjustedValues(c.before)
              /\ \A t \in DOMAIN RuleSets :
                   RuleCount(rule_stats', t, c.rule) = RuleCount(rule_stats, t, c.rule)
      ]_vars

\* a call of pre_leap raises after it has moved the start of its note
RaisedAfterMovingTheNote ==
    \E c \in RaisedAtCursor :
        /\ c.rule = "pre_leap"
        /\ c.after[cursor[2] + 1].adjusted_start_time
             # c.before[cursor[2] + 1].adjusted_start_time

\* what the note loop does: a call that raises is not counted, and one that
\* raises on entry leaves every adjusted value as it was
FailedRuleIsNotCounted ==
    [][ NoteStep =>
          \A c \in RaisedAtCursor :
              /\ \A t \in DOMAIN RuleSets :
                   RuleCount(rule_stats', t, c.rule) = RuleCount(rule_stats, t, c.rule)
              /\ Failing(<<"rule", cursor[1], cursor[2], c.position>>) =>
                   AdjustedValues(c.after) = AdjustedValues(c.before)
      ]_vars

\* the ticks from the start of a note's measure to the note (4/4 at the
\* file's ticks per beat)
TickInMeasure(n) == n.original_start_time % (4 * ticks_per_beat)

\* C26: a note is flagged is_downbeat exactly when it starts less than 0.1
\* beats from beat 1 or from beat 3 of the 4-beat measure, before or after;
\* a note less than 0.1 beats before the barline is that close to beat 1
C26_DownbeatOnEitherSide ==
    \A v \in AnalyzedVoices : \A k \in 1..Len(voices[v].notes) :
        LET n == voices[v].notes[k]
            t == TickInMeasure(n)
        IN  n.is_downbeat <=>
              \/ 10 * t < ticks_per_beat
              \/ 10 * (4 * ticks_per_beat - t) < ticks_per_beat
              \/ 10 * Abs(t - 2 * ticks_per_beat) < ticks_per_beat

\* a note less than 0.1 beats before the barline is not flagged, while one
\* as close before beat 3 is
UnflaggedBeforeBarline ==
    \E v \in AnalyzedVoices : \E k, j \in 1..Len(voices[v].notes) :
        /\ 10 * (4 * ticks_per_beat - TickInMeasure(voices[v].notes[k]))
             < ticks_per_beat
        /\ ~voices[v].notes[k].is_downbeat
        /\ TickInMeasure(voices[v].notes[j]) < 2 * ticks_per_beat
        /\ 10 * (2 * ticks_per_beat - TickInMeasure(voices[v].notes[j]))
             < ticks_per_beat
        /\ voices[v].notes[j].is_downbeat

\* what the code does: beat 3 counts on either side, beat 1 only from the
\* barline on
DownbeatFromBarlineOn ==
    \A v \in AnalyzedVoices : \A k \in 1..Len(voices[v].notes) :
        LET n == voices[v].notes[k]
            t == TickInMeasure(n)
        IN  n.is_downbeat <=>
              \/ 10 * t < ticks_per_beat
              \/ 10 * Abs(t - 2 * ticks_per_beat) < ticks_per_beat

\* the context _interpret_voice builds for the note at the cursor
ContextAtCursor == InterpretationContext(ticks_per_beat, cfg, BiasAtCursor)

\* the start-time changes a call makes, over all notes of the voice
ShiftsBy(c) ==
    { c.after[k].adjusted_start_time - c.before[k].adjusted_start_time :
        k \in 1..Len(c.before) }

\* C27: whatever the bias, a single rule application changes a note's start
\* time by an amount within [max_acceleration, max_delay] of the context
\* built for the note, so that under a bias of 1.0 no rule moves a note
\* earlier and under a bias of -1.0 none moves a note later
C27_ShiftWithinBiasedBounds ==
    \A c \in CallsAtCursor : \A d \in ShiftsBy(c) :
        /\ ContextAtCursor.max_acceleration <= d
        /\ d <= ContextAtCursor.max_delay

\* a rule moves a note earlier than the biased context allows
ShiftBeyondMaxAcceleration ==
    /\ CallsAtCursor # {}
    /\ BiasAtCursor > 0
    /\ \E c \in CallsAtCursor : \E d \in ShiftsBy(c) :
         d < ContextAtCursor.max_acceleration

\* a rule moves a note later than the biased context allows
ShiftBeyondMaxDelay ==
    /\ CallsAtCursor # {}
    /\ BiasAtCursor < 0
    /\ \E c \in CallsAtCursor : \E d \in ShiftsBy(c) :
         d > ContextAtCursor.max_delay

\* what the code does: directional_timing, the one rule that asks the
\* context for its adjustment, stays within [max_acceleration, max_delay];
\* every other rule scales max_timing_change, which the bias leaves alone,
\* and stays within [-max_timing_change, max_timing_change]
ShiftWithinUnbiasedBounds ==
    \A c \in CallsAtCursor : \A d \in ShiftsBy(c) :
        /\ -ContextAtCursor.max_timing_change <= d
        /\ d <= ContextAtCursor.max_timing_change
        /\ c.rule = "directional_timing" =>
             /\ ContextAtCursor.max_acceleration <= d
             /\ d <= ContextAtCursor.max_delay

\* C28: at every ticks_per_beat, the measure index the interpreter uses to
\* look up a note's bias is the measure index the conductor gave the note
\* when it sized the structure and the map, so the lookup falls inside
\* [0, measure_count) and is never clamped to the last measure
C28_MeasureIndicesAgree ==
    NoteAtCursor =>
        LET note == voices[cursor[1] + 1].notes[cursor[2] + 1]
            measure == GetMeasureNumber(note, ticks_per_beat)
        IN  /\ measure = EstimateMeasureNumber(note)
            /\ 0 <= measure
            /\ measure < conductor.stats.measure_count

\* the interpreter looks up a measure beyond the last one the conductor
\* counted
LookupBeyondLastMeasure ==
    /\ NoteAtCursor
    /\ DOMAIN conductor.agogic_map # {}
    /\ GetMeasureNumber(voices[cursor[1] + 1].notes[cursor[2] + 1], ticks_per_beat)
         > MaxOfSet(DOMAIN conductor.agogic_map)
    /\ GetMeasureNumber(voices[cursor[1] + 1].notes[cursor[2] + 1], ticks_per_beat)
         >= conductor.stats.measure_count

\* what the code does: the conductor counts measures of 1920 ticks whatever
\* the file's resolution, the interpreter measures of 4 * ticks_per_beat;
\* the two agree, and the lookup stays inside the map, at 480 ticks per beat
MeasureIndicesAgreeAt480 ==
    NoteAtCursor =>
        LET note == voices[cursor[1] + 1].notes[cursor[2] + 1]
            measure == GetMeasureNumber(note, ticks_per_beat)
        IN  /\ EstimateMeasureNumber(note) = note.original_start_time \div 1920
            /\ measure = note.original_start_time \div (4 * ticks_per_beat)
            /\ ticks_per_beat = 480 =>
                 /\ measure = EstimateMeasureNumber(note)
                 /\ measure < conductor.stats.measure_count


\* C29: a note whose original velocity is a note-on velocity, 1..127, has
\* an adjusted_velocity in 1..127 after every rule application: before and
\* after each call of a rule of its role's set, on the note the rule is
\* called for and on every other note of the voice (pre_leap writes the
\* velocity of the next note), and in every state of the run
ValidVelocity(n) == n.velocity \in 1..127 => n.adjusted_velocity \in 1..127

C29_VelocityStaysValid ==
    /\ \A v \in DOMAIN voices : \A k \in DOMAIN voices[v].notes :
         ValidVelocity(voices[v].notes[k])
    /\ \A c \in CallsAtCursor : \A k \in DOMAIN c.after :
         ValidVelocity(c.before[k]) /\ ValidVelocity(c.after[k])

\* pre_leap re-voices a next note of velocity 127, which 12 % more would
\* take past 127
ReVoicedAtTheCeiling ==
    \E c \in CallsAtCursor :
        /\ c.rule = "pre_leap" /\ c.applied
        /\ \E k \in DOMAIN c.after :
             /\ k = cursor[2] + 2
             /\ c.before[k].velocity = 127
             /\ c.after[k].adjusted_velocity = 127
             /\ Trunc(127 * (100000 + 12 * ContextAtCursor.dynamics_strength),
                      100000) > 127

\* a voice of velocity 1 has had a lowering rule applied: 5 % less than 1
\* truncates to 0, and the note stays at 1
LoweredAtTheFloor ==
    \E c \in CallsAtCursor :
        /\ c.rule \in {"phrase_end", "inner_base_velocity"} /\ c.applied
        /\ c.before[cursor[2] + 1].velocity = 1
        /\ c.after[cursor[2] + 1].adjusted_velocity = 1
        /\ ContextAtCursor.dynamics_strength > 0


\* the absolute time a reader of the written track gives its k-th message
RunningSum(written, k) == SumSeq([ j \in 1..k |-> written[j][2].time ])

\* the absolute time the writer collected the k-th message of the track for:
\* adjusted_start_time for the note-on of an adjusted note,
\* adjusted_start_time + adjusted_duration for its note-off, the original
\* time for every other message
IntendedTime(written, k) == written[k][1]

\* C30: in every track a writer has rebuilt, every delta time is >= 0 and
\* the running sum of the deltas at each message equals max(0, the absolute
\* time intended for it), so that a note with a negative adjusted start time
\* does not shift the messages after it
C30_DeltasRebuildIntendedTimes ==
    \A t \in DOMAIN output : \A k \in DOMAIN output[t] :
        /\ output[t][k][2].time >= 0
        /\ RunningSum(output[t], k) = Max2(0, IntendedTime(output[t], k))

\* a track is written whose first note starts before tick 0 and whose later
\* messages all sound later than intended
NegativeStartShiftsTheRest ==
    /\ pc = "saved"
    /\ \E t \in DOMAIN output :
         /\ Len(output[t]) > 2
         /\ IntendedTime(output[t], 1) < 0
         /\ \A k \in 2..Len(output[t]) :
              /\ IntendedTime(output[t], k) > 0
              /\ RunningSum(output[t], k) > IntendedTime(output[t], k)

\* the same through process_midi_with_interpretation
NegativeStartShiftsTheRestProcessed ==
    /\ pc = "processed"
    /\ \E t \in DOMAIN output : \E k \in DOMAIN output[t] :
         /\ IntendedTime(output[t], 1) < 0
         /\ IntendedTime(output[t], k) > 0
         /\ RunningSum(output[t], k) > IntendedTime(output[t], k)

\* what the writers do: no delta is negative, and every message sounds at
\* its intended time less the intended time of the earliest message of the
\* track when that one is negative (last_time takes the negative time, so
\* the next delta is longer by it)
DeltasRebuildTimesFromTheEarliest ==
    \A t \in DOMAIN output : \A k \in DOMAIN output[t] :
        /\ output[t][k][2].time >= 0
        /\ RunningSum(output[t], k) =
             IntendedTime(output[t], k) - Min2(0, IntendedTime(output[t], 1))

\* a track with a message other than a note is written, all of it on time
WrittenOnTime ==
    /\ pc = "saved"
    /\ \E t \in DOMAIN output :
         /\ \E k \in DOMAIN output[t] : output[t][k][2].type = "end_of_track"
         /\ \E k \in DOMAIN output[t] :
              /\ output[t][k][2].type = "note_on" /\ output[t][k][2].velocity > 0
              /\ \E n \in NotesOf(voices) :
                   /\ n.adjusted_start_time = IntendedTime(output[t], k)
                   /\ n.adjusted_start_time # n.original_start_time
         /\ \A k \in DOMAIN output[t] :
              RunningSum(output[t], k) = IntendedTime(output[t], k)

=============================================================================
